---- MODULE Spec2Model ----
(***************************************************************************)
(* Task-management service (seldomhappy/vibe_architecture).                *)
(*                                                                         *)
(* The repository holds two implementations side by side:                  *)
(*   - the int64-keyed service: domain.Task with Validate/Assign/Complete, *)
(*     repository.TaskRepository (SQL), task.TaskUseCase, kafka.Producer   *)
(*     with PublishTask*, lifecycle.Manager with StartAll/ShutdownAll;     *)
(*   - the UUID-keyed service: models.Task, task.UseCase running inside    *)
(*     TxManager.WithinTransaction, kafka.Producer with SendTask*,         *)
(*     lifecycle.Manager with Start/Stop.                                  *)
(* Spec models the int64-keyed use case over its SQL table.                *)
(***************************************************************************)
EXTENDS Integers, Sequences, FiniteSets, TLC

VARIABLES
    tasks,      \* the tasks table: a function from the ids of the stored rows to the rows
    nextID,     \* the next value of the BIGSERIAL sequence behind tasks.id
    now,        \* the wall clock read by time.Now()
    deleted,    \* the ids of the rows removed by a DELETE so far
    producer,   \* the Kafka producer the use case holds: "enabled", "disabled" or "absent"
    served,     \* the number of requests answered so far
    req,        \* the request being served: None, or Some([op, id, in])
    resp,       \* its answer: None, or Some([err, code, body, by, pub, ret, fault, before])
    manager,    \* the lifecycle manager main holds: "lifecycle.Manager" or "Manager"
    services,   \* the components registered with it, in registration order
    calls,      \* the Start and Shutdown/Stop calls made on components, in order
    phase,      \* where main is: "init", "running" or "exited"
    started,    \* what StartAll/Start returned: None before it has, else Some(err)
    stopped,    \* what ShutdownAll/Stop returned: None before it has, else Some(err)
    store,      \* the committed content of the database a transaction works on
    lastTx,     \* the last call of a transaction manager: None, or Some of its record
    inflight,   \* the requests served concurrently: for each goroutine, where it is
    journal     \* the rows handed to the UPDATE statements executed so far, in order

\* the variables of the use cases, of the lifecycle manager, of the transaction
\* manager, of the requests served concurrently
ucVars == <<tasks, nextID, now, deleted, producer, served, req, resp>>
lcVars == <<manager, services, calls, phase, started, stopped>>
txVars == <<store, lastTx>>
rcVars == <<inflight, journal>>

vars == <<ucVars, lcVars, txVars, rcVars>>

----------------------------------------------------------------------------
(* Bounds of the model. *)

\* the number of rows the id sequence hands out
MaxTasks == 2
\* the number of requests served in a run
MaxRequests == 3
\* the last instant of the wall clock
MaxClock == 2

(* Program constants. *)

\* len(t.Name) > 255
MaxNameLen == 255

----------------------------------------------------------------------------
(* Values. *)

\* a nil pointer / absent optional field is <<>>, a set one is <<v>>
None == <<>>
Some(v) == <<v>>
IsSome(o) == o # <<>>
Get(o) == o[1]

\* an error value is the chain of messages from the outermost wrapper to the
\* innermost cause; nil is the empty chain
Nil == <<>>
\* fmt.Errorf(msg + ": %w", e)
Wrap(msg, e) == <<msg>> \o e
\* errors.Is(e, target) for a sentinel target
ErrorsIs(e, target) == e # Nil /\ e[Len(e)] = target[1]

ErrEmptyTaskName == <<"task name cannot be empty">>
ErrTaskNotFound == <<"task not found">>
ErrTaskNameTooLong == <<"task name is too long (max 255 characters)">>
ErrUserNotFound == <<"user not found">>
ErrUnauthorized == <<"unauthorized">>
ErrInvalidInput == <<"invalid input">>
ErrInternal == <<"internal error">>
\* an error of the database driver (connection lost, context cancelled, ...)
ErrDriver == <<"driver error">>
\* an error of the Kafka client
ErrBroker == <<"broker error">>

TaskStatusPending == "pending"
TaskStatusInProgress == "in_progress"
TaskStatusCompleted == "completed"
TaskStatusCancelled == "cancelled"

PriorityLow == "low"
PriorityMedium == "medium"
PriorityHigh == "high"

\* a string is the sequence of its runs: [c |-> character, n |-> how many of it]
Str(c, n) == <<[c |-> c, n |-> n]>>

RECURSIVE StrLen(_)
\* len(s)
StrLen(s) == IF s = <<>> THEN 0 ELSE Head(s).n + StrLen(Tail(s))

\* a name of n letters
NameOfLen(n) == Str("x", n)

----------------------------------------------------------------------------
(* domain.Task (internal/domain): the entity, its validation and its     *)
(* state transitions.                                                      *)

IsSpace(c) == c \in {" ", "\t", "\n", "\r"}

RECURSIVE TrimLeft(_)
TrimLeft(s) == IF s # <<>> /\ IsSpace(Head(s).c) THEN TrimLeft(Tail(s)) ELSE s

RECURSIVE TrimRight(_)
TrimRight(s) ==
    IF s # <<>> /\ IsSpace(s[Len(s)].c) THEN TrimRight(SubSeq(s, 1, Len(s) - 1)) ELSE s

\* strings.TrimSpace
TrimSpace(s) == TrimRight(TrimLeft(s))

\* TaskStatus.IsValid
StatusIsValid(s) ==
    s \in {TaskStatusPending, TaskStatusInProgress, TaskStatusCompleted, TaskStatusCancelled}

\* Priority.IsValid
PriorityIsValid(p) == p \in {PriorityLow, PriorityMedium, PriorityHigh}

\* Task.Validate
Validate(t) ==
    IF TrimSpace(t.Name) = <<>> THEN ErrEmptyTaskName
    ELSE IF StrLen(t.Name) > MaxNameLen THEN ErrTaskNameTooLong
    ELSE IF ~StatusIsValid(t.Status) THEN ErrInvalidInput
    ELSE IF ~PriorityIsValid(t.Priority) THEN ErrInvalidInput
    ELSE IF t.CreatedBy <= 0 THEN ErrInvalidInput
    ELSE Nil

\* Task.IsCompleted
IsCompleted(t) == t.Status = TaskStatusCompleted

\* a faulty CanBeAssigned that lets cancelled tasks through; C2 does not hold of it
CanBeAssignedUnlessCompleted(t) == t.Status # TaskStatusCompleted

\* Task.CanBeAssigned
CanBeAssigned(t) == t.Status = TaskStatusPending \/ t.Status = TaskStatusInProgress

\* a faulty Complete that touches the last-updated timestamp before it looks
\* at the status; C30 does not hold of it
CompleteStampingOnFailure(t, tm) ==
    IF IsCompleted(t)
        THEN [err |-> <<"task is already completed">>, task |-> [t EXCEPT !.UpdatedAt = tm]]
    ELSE IF t.Status = TaskStatusCancelled
        THEN [err |-> <<"cannot complete a cancelled task">>,
              task |-> [t EXCEPT !.UpdatedAt = tm]]
    ELSE [err |-> Nil,
          task |-> [t EXCEPT !.Status = TaskStatusCompleted, !.UpdatedAt = tm]]

\* Task.Complete at instant tm: the error returned and the task afterwards
Complete(t, tm) ==
    IF IsCompleted(t) THEN [err |-> <<"task is already completed">>, task |-> t]
    ELSE IF t.Status = TaskStatusCancelled
        THEN [err |-> <<"cannot complete a cancelled task">>, task |-> t]
    ELSE [err |-> Nil,
          task |-> [t EXCEPT !.Status = TaskStatusCompleted, !.UpdatedAt = tm]]

\* Task.Assign at instant tm: the error returned and the task afterwards
Assign(t, userID, tm) ==
    IF ~CanBeAssigned(t)
        THEN [err |-> <<"task cannot be assigned in its current status", t.Status>>,
              task |-> t]
    ELSE IF userID <= 0 THEN [err |-> ErrUserNotFound, task |-> t]
    ELSE [err |-> Nil,
          task |-> [t EXCEPT !.AssignedTo = Some(userID),
                             !.Status = IF t.Status = TaskStatusPending
                                            THEN TaskStatusInProgress
                                            ELSE t.Status,
                             !.UpdatedAt = tm]]

\* a faulty Cancel that lets a completed task through; C25 does not hold of it
CancelUnlessCancelled(t, tm) ==
    IF t.Status = TaskStatusCancelled
        THEN [err |-> <<"task is already cancelled">>, task |-> t]
    ELSE [err |-> Nil,
          task |-> [t EXCEPT !.Status = TaskStatusCancelled, !.UpdatedAt = tm]]

\* Task.Cancel at instant tm: the error returned and the task afterwards
Cancel(t, tm) ==
    IF IsCompleted(t) THEN [err |-> <<"cannot cancel a completed task">>, task |-> t]
    ELSE IF t.Status = TaskStatusCancelled
        THEN [err |-> <<"task is already cancelled">>, task |-> t]
    ELSE [err |-> Nil,
          task |-> [t EXCEPT !.Status = TaskStatusCancelled, !.UpdatedAt = tm]]

----------------------------------------------------------------------------
(* repository.TaskRepository (internal/repository): the SQL statements    *)
(* over the tasks table. dbFail: the driver reports an error and the       *)
(* statement has no effect.                                                *)

\* a faulty Create that stores the row but does not scan the generated id and
\* timestamps back into the task; C4 does not hold of it
RepoCreateWithoutScan(tbl, seq, t, tm, dbFail) ==
    IF dbFail
        THEN [err |-> Wrap("failed to create task", ErrDriver), tbl |-> tbl, task |-> t]
    ELSE LET row == [t EXCEPT !.ID = seq, !.CreatedAt = tm, !.UpdatedAt = tm]
         IN  [err |-> Nil,
              tbl |-> [i \in DOMAIN tbl \cup {seq} |-> IF i = seq THEN row ELSE tbl[i]],
              task |-> t]

\* a faulty Create that gives the new row the smallest identifier no row has,
\* so the identifier of a deleted row comes back; C26 does not hold of it
RepoCreateReusingIDs(tbl, seq, t, tm, dbFail) ==
    IF dbFail
        THEN [err |-> Wrap("failed to create task", ErrDriver), tbl |-> tbl, task |-> t]
    ELSE LET id  == CHOOSE i \in 1..seq : i \notin DOMAIN tbl /\ (1..(i - 1)) \subseteq DOMAIN tbl
             row == [t EXCEPT !.ID = id, !.CreatedAt = tm, !.UpdatedAt = tm]
         IN  [err |-> Nil,
              tbl |-> [i \in DOMAIN tbl \cup {id} |-> IF i = id THEN row ELSE tbl[i]],
              task |-> row]

\* INSERT ... RETURNING id, created_at, updated_at, scanned into the task
RepoCreate(tbl, seq, t, tm, dbFail) ==
    IF dbFail
        THEN [err |-> Wrap("failed to create task", ErrDriver), tbl |-> tbl, task |-> t]
    ELSE LET row == [t EXCEPT !.ID = seq, !.CreatedAt = tm, !.UpdatedAt = tm]
         IN  [err |-> Nil,
              tbl |-> [i \in DOMAIN tbl \cup {seq} |-> IF i = seq THEN row ELSE tbl[i]],
              task |-> row]

\* SELECT ... WHERE id = $1
RepoGetByID(tbl, id, dbFail) ==
    IF dbFail THEN [err |-> Wrap("failed to get task", ErrDriver), task |-> None]
    ELSE IF id \notin DOMAIN tbl THEN [err |-> ErrTaskNotFound, task |-> None]
    ELSE [err |-> Nil, task |-> Some(tbl[id])]

\* a faulty Update whose statement leaves the name column out; C15 does not
\* hold of it
RepoUpdateWithoutName(tbl, t, tm, dbFail) ==
    IF dbFail THEN [err |-> Wrap("failed to update task", ErrDriver), tbl |-> tbl]
    ELSE IF t.ID \notin DOMAIN tbl THEN [err |-> ErrTaskNotFound, tbl |-> tbl]
    ELSE [err |-> Nil,
          tbl |-> [tbl EXCEPT ![t.ID] =
                      [@ EXCEPT !.Description = t.Description,
                                !.Status = t.Status,
                                !.Priority = t.Priority,
                                !.AssignedTo = t.AssignedTo,
                                !.UpdatedAt = tm]]]

\* UPDATE tasks SET name, description, status, priority, assigned_to,
\* updated_at WHERE id = $7
RepoUpdate(tbl, t, tm, dbFail) ==
    IF dbFail THEN [err |-> Wrap("failed to update task", ErrDriver), tbl |-> tbl]
    ELSE IF t.ID \notin DOMAIN tbl THEN [err |-> ErrTaskNotFound, tbl |-> tbl]
    ELSE [err |-> Nil,
          tbl |-> [tbl EXCEPT ![t.ID] =
                      [@ EXCEPT !.Name = t.Name,
                                !.Description = t.Description,
                                !.Status = t.Status,
                                !.Priority = t.Priority,
                                !.AssignedTo = t.AssignedTo,
                                !.UpdatedAt = tm]]]

\* a faulty Delete that does not look at RowsAffected; C6 does not hold of it
RepoDeleteIgnoringRowsAffected(tbl, id, dbFail) ==
    IF dbFail THEN [err |-> Wrap("failed to delete task", ErrDriver), tbl |-> tbl]
    ELSE [err |-> Nil, tbl |-> [i \in DOMAIN tbl \ {id} |-> tbl[i]]]

\* DELETE FROM tasks WHERE id = $1
RepoDelete(tbl, id, dbFail) ==
    IF dbFail THEN [err |-> Wrap("failed to delete task", ErrDriver), tbl |-> tbl]
    ELSE IF id \notin DOMAIN tbl THEN [err |-> ErrTaskNotFound, tbl |-> tbl]
    ELSE [err |-> Nil, tbl |-> [i \in DOMAIN tbl \ {id} |-> tbl[i]]]

----------------------------------------------------------------------------
(* kafka.Producer of the int64-keyed service: PublishTask* -> SendMessage. *)

\* Producer.SendMessage: the error returned; brokerDown: the client fails
SendMessage(brokerDown) ==
    IF brokerDown THEN Wrap("failed to send message", ErrBroker) ELSE Nil

\* what the use case leaves of a publish: it logs a warning and goes on
PublishOutcome(brokerDown) == IF SendMessage(brokerDown) = Nil THEN "sent" ELSE "failed"

----------------------------------------------------------------------------
(* task.TaskUseCase (internal/usecase/task): each operation as a function  *)
(* of the table, the clock and the faults of its collaborators. A result   *)
(* is [err, tbl, seq, ret, pub]: the error returned, the table and the id  *)
(* sequence afterwards, the task returned (None when none is), and what    *)
(* became of the event: "none" (no publish call), "sent" or "failed".      *)
(* fault names the one collaborator call that fails in this request:       *)
(* "get" (the load), "write" (the insert/update/delete), "pub" (the        *)
(* publish), or "none".                                                    *)

Faults == {"none", "get", "write", "pub"}
\* the faults that can show in an operation that only reads, only writes, or both
ReadFaults == {"none", "get"}
WriteFaults == {"none", "write", "pub"}

\* the task built by CreateTask from its input
NewTask(in) ==
    [ID |-> 0, Name |-> in.Name, Description |-> in.Description,
     Status |-> TaskStatusPending, Priority |-> in.Priority, AssignedTo |-> None,
     CreatedBy |-> in.CreatedBy, CreatedAt |-> 0, UpdatedAt |-> 0]

\* TaskUseCase.CreateTask
UCCreateTask(tbl, seq, in, tm, fault) ==
    LET task == NewTask(in)
        verr == Validate(task)
        c    == RepoCreate(tbl, seq, task, tm, fault = "write")
    IN  IF verr # Nil
            THEN [err |-> verr, tbl |-> tbl, seq |-> seq, ret |-> None, pub |-> "none"]
        ELSE IF c.err # Nil
            THEN [err |-> Wrap("failed to create task", c.err), tbl |-> tbl, seq |-> seq,
                  ret |-> None, pub |-> "none"]
        ELSE [err |-> Nil, tbl |-> c.tbl, seq |-> seq + 1, ret |-> Some(c.task),
              pub |-> PublishOutcome(fault = "pub")]

\* TaskUseCase.GetTask
UCGetTask(tbl, seq, id, fault) ==
    LET g == RepoGetByID(tbl, id, fault = "get")
    IN  [err |-> g.err, tbl |-> tbl, seq |-> seq, ret |-> g.task, pub |-> "none"]

\* the update input with no field present
NoUpdate == [Name |-> None, Description |-> None, Status |-> None, Priority |-> None]

\* the merge of UpdateTask: the fields present in the input overwrite the task's
ApplyUpdate(t, in, tm) ==
    [t EXCEPT !.Name = IF IsSome(in.Name) THEN Get(in.Name) ELSE @,
              !.Description = IF IsSome(in.Description) THEN Get(in.Description) ELSE @,
              !.Status = IF IsSome(in.Status) THEN Get(in.Status) ELSE @,
              !.Priority = IF IsSome(in.Priority) THEN Get(in.Priority) ELSE @,
              !.UpdatedAt = tm]

\* TaskUseCase.UpdateTask up to the validation: the load, the merge and
\* Validate; [err, loaded, task], the row as loaded and the merged task
UCUpdateTaskLoad(tbl, id, in, tm, fault) ==
    LET g == RepoGetByID(tbl, id, fault = "get")
    IN  IF g.err # Nil THEN [err |-> g.err, loaded |-> None, task |-> None]
        ELSE LET task == ApplyUpdate(Get(g.task), in, tm)
                 verr == Validate(task)
             IN  IF verr # Nil THEN [err |-> verr, loaded |-> g.task, task |-> None]
                 ELSE [err |-> Nil, loaded |-> g.task, task |-> Some(task)]

\* TaskUseCase.UpdateTask from there on: the UPDATE and the publish
UCUpdateTaskSave(tbl, seq, task, tm, fault) ==
    LET u == RepoUpdate(tbl, task, tm, fault = "write")
    IN  IF u.err # Nil
            THEN [err |-> Wrap("failed to update task", u.err), tbl |-> tbl,
                  seq |-> seq, ret |-> None, pub |-> "none"]
        ELSE [err |-> Nil, tbl |-> u.tbl, seq |-> seq, ret |-> Some(task),
              pub |-> PublishOutcome(fault = "pub")]

\* TaskUseCase.UpdateTask
UCUpdateTask(tbl, seq, id, in, tm, fault) ==
    LET l == UCUpdateTaskLoad(tbl, id, in, tm, fault)
    IN  IF l.err # Nil
            THEN [err |-> l.err, tbl |-> tbl, seq |-> seq, ret |-> None, pub |-> "none"]
        ELSE UCUpdateTaskSave(tbl, seq, Get(l.task), tm, fault)

\* a faulty DeleteTask that returns the publish error; C7 does not hold of it
UCDeleteTaskFailingOnPublish(tbl, seq, id, fault) ==
    LET d == RepoDelete(tbl, id, fault = "write")
    IN  IF d.err # Nil
            THEN [err |-> d.err, tbl |-> tbl, seq |-> seq, ret |-> None, pub |-> "none"]
        ELSE [err |-> SendMessage(fault = "pub"), tbl |-> d.tbl, seq |-> seq, ret |-> None,
              pub |-> PublishOutcome(fault = "pub")]

\* TaskUseCase.DeleteTask
UCDeleteTask(tbl, seq, id, fault) ==
    LET d == RepoDelete(tbl, id, fault = "write")
    IN  IF d.err # Nil
            THEN [err |-> d.err, tbl |-> tbl, seq |-> seq, ret |-> None, pub |-> "none"]
        ELSE [err |-> Nil, tbl |-> d.tbl, seq |-> seq, ret |-> None,
              pub |-> PublishOutcome(fault = "pub")]

\* TaskUseCase.AssignTask
UCAssignTask(tbl, seq, id, userID, tm, fault) ==
    LET g == RepoGetByID(tbl, id, fault = "get")
    IN  IF g.err # Nil
            THEN [err |-> g.err, tbl |-> tbl, seq |-> seq, ret |-> None, pub |-> "none"]
        ELSE LET a == Assign(Get(g.task), userID, tm)
                 u == RepoUpdate(tbl, a.task, tm, fault = "write")
             IN  IF a.err # Nil
                     THEN [err |-> a.err, tbl |-> tbl, seq |-> seq, ret |-> None,
                           pub |-> "none"]
                 ELSE IF u.err # Nil
                     THEN [err |-> Wrap("failed to save task", u.err), tbl |-> tbl,
                           seq |-> seq, ret |-> None, pub |-> "none"]
                 ELSE [err |-> Nil, tbl |-> u.tbl, seq |-> seq, ret |-> None,
                       pub |-> PublishOutcome(fault = "pub")]

\* TaskUseCase.CompleteTask
UCCompleteTask(tbl, seq, id, tm, fault) ==
    LET g == RepoGetByID(tbl, id, fault = "get")
    IN  IF g.err # Nil
            THEN [err |-> g.err, tbl |-> tbl, seq |-> seq, ret |-> None, pub |-> "none"]
        ELSE LET c == Complete(Get(g.task), tm)
                 u == RepoUpdate(tbl, c.task, tm, fault = "write")
             IN  IF c.err # Nil
                     THEN [err |-> c.err, tbl |-> tbl, seq |-> seq, ret |-> None,
                           pub |-> "none"]
                 ELSE IF u.err # Nil
                     THEN [err |-> Wrap("failed to save task", u.err), tbl |-> tbl,
                           seq |-> seq, ret |-> None, pub |-> "none"]
                 ELSE [err |-> Nil, tbl |-> u.tbl, seq |-> seq, ret |-> None,
                       pub |-> PublishOutcome(fault = "pub")]

----------------------------------------------------------------------------
(* repository.TxManager (internal/repository/transaction.go): the two      *)
(* transaction managers. tbl is the committed table; body is what fn does  *)
(* when run on the transaction: [err, panic, tbl, pub], the error it       *)
(* returns, the value it panics with (None when it returns), the table as  *)
(* the transaction sees it afterwards, and what became of the event it     *)
(* published. A result is [err, panic, tbl, pub, began, ran, commits,      *)
(* rollbacks]: the error returned, the panic that leaves the call, the     *)
(* committed table afterwards, and the calls made on the transaction. An   *)
(* error of Rollback itself is dropped (or logged) by both managers.       *)

TxResult(err, panic, tbl, pub, began, ran, commits, rollbacks) ==
    [err |-> err, panic |-> panic, tbl |-> tbl, pub |-> pub, began |-> began,
     ran |-> ran, commits |-> commits, rollbacks |-> rollbacks]

\* a faulty WithinTransaction that wraps the error of fn and commits what a
\* panicking fn wrote; C10 does not hold of it
WithinTransactionLoose(tbl, body, beginFails, commitFails) ==
    IF beginFails
        THEN TxResult(Wrap("failed to begin transaction", ErrDriver), None, tbl, "none",
                      FALSE, FALSE, 0, 0)
    ELSE IF IsSome(body.panic)
        THEN TxResult(Nil, body.panic, body.tbl, body.pub, TRUE, TRUE, 1, 0)
    ELSE IF body.err # Nil
        THEN TxResult(Wrap("transaction failed", body.err), None, tbl, body.pub,
                      TRUE, TRUE, 0, 1)
    ELSE IF commitFails
        THEN TxResult(Wrap("failed to commit transaction", ErrDriver), None, tbl, body.pub,
                      TRUE, TRUE, 1, 0)
    ELSE TxResult(Nil, None, body.tbl, body.pub, TRUE, TRUE, 1, 0)

\* TxManager.WithinTransaction (UUID-keyed service)
WithinTransaction(tbl, body, beginFails, commitFails) ==
    IF beginFails
        THEN TxResult(Wrap("failed to begin transaction", ErrDriver), None, tbl, "none",
                      FALSE, FALSE, 0, 0)
    ELSE IF IsSome(body.panic)
        THEN TxResult(Nil, body.panic, tbl, body.pub, TRUE, TRUE, 0, 1)
    ELSE IF body.err # Nil
        THEN TxResult(body.err, None, tbl, body.pub, TRUE, TRUE, 0, 1)
    ELSE IF commitFails
        THEN TxResult(Wrap("failed to commit transaction", ErrDriver), None, tbl, body.pub,
                      TRUE, TRUE, 1, 0)
    ELSE TxResult(Nil, None, body.tbl, body.pub, TRUE, TRUE, 1, 0)

\* TxManager.WithTransaction (int64-keyed service): "return err" has set the
\* result before the deferred function runs, so what that function assigns to
\* err from tx.Commit is not returned
WithTransaction(tbl, body, beginFails, commitFails) ==
    IF beginFails
        THEN TxResult(Wrap("failed to begin transaction", ErrDriver), None, tbl, "none",
                      FALSE, FALSE, 0, 0)
    ELSE IF IsSome(body.panic)
        THEN TxResult(Nil, body.panic, tbl, body.pub, TRUE, TRUE, 0, 1)
    ELSE IF body.err # Nil
        THEN TxResult(body.err, None, tbl, body.pub, TRUE, TRUE, 0, 1)
    ELSE IF commitFails
        THEN TxResult(Nil, None, tbl, body.pub, TRUE, TRUE, 1, 0)
    ELSE TxResult(Nil, None, body.tbl, body.pub, TRUE, TRUE, 1, 0)

----------------------------------------------------------------------------
(* The UUID-keyed service: models.Task, the TaskRepository interface,      *)
(* kafka.Producer with Send*, task.UseCase (unnamed/part_011).             *)

StatusPending == "pending"
StatusActive == "active"
StatusCompleted == "completed"
StatusCancelled == "cancelled"

\* the implementation of repository.TaskRepository for models.Task is not in
\* the source tree; these four follow the contract of the repository:
\* Create stores the task, GetByID fails with NotFound when the row is absent,
\* Update and Delete fail with NotFound when no row is affected.
TaskRepositoryCreate(tbl, t, dbFail) ==
    IF dbFail THEN [err |-> ErrDriver, tbl |-> tbl]
    ELSE [err |-> Nil, tbl |-> [i \in DOMAIN tbl \cup {t.ID} |-> IF i = t.ID THEN t ELSE tbl[i]]]

TaskRepositoryGetByID(tbl, id, dbFail) ==
    IF dbFail THEN [err |-> ErrDriver, task |-> None]
    ELSE IF id \notin DOMAIN tbl THEN [err |-> ErrTaskNotFound, task |-> None]
    ELSE [err |-> Nil, task |-> Some(tbl[id])]

TaskRepositoryUpdate(tbl, t, dbFail) ==
    IF dbFail THEN [err |-> ErrDriver, tbl |-> tbl]
    ELSE IF t.ID \notin DOMAIN tbl THEN [err |-> ErrTaskNotFound, tbl |-> tbl]
    ELSE [err |-> Nil, tbl |-> [tbl EXCEPT ![t.ID] = t]]

TaskRepositoryDelete(tbl, id, dbFail) ==
    IF dbFail THEN [err |-> ErrDriver, tbl |-> tbl]
    ELSE IF id \notin DOMAIN tbl THEN [err |-> ErrTaskNotFound, tbl |-> tbl]
    ELSE [err |-> Nil, tbl |-> [i \in DOMAIN tbl \ {id} |-> tbl[i]]]

ProducerModes == {"enabled", "disabled", "absent"}

\* a faulty SendTask* that goes to the broker even when the producer is the
\* disabled stub; C11 does not hold of it
SendTaskAlways(mode, brokerDown) ==
    IF brokerDown THEN Wrap("failed to send message to Kafka", ErrBroker) ELSE Nil

\* Producer.SendTask*: nil at once when the producer is the disabled stub,
\* else sendEvent
SendTask(mode, brokerDown) ==
    IF mode = "disabled" THEN Nil
    ELSE IF brokerDown THEN Wrap("failed to send message to Kafka", ErrBroker)
    ELSE Nil

\* the publish step of a transaction body: no call on a nil producer, a
\* warning when the send fails; "skipped" is the disabled stub's no-op
SendOutcome(mode, brokerDown) ==
    IF mode = "absent" THEN "none"
    ELSE IF SendTask(mode, brokerDown) # Nil THEN "failed"
    ELSE IF mode = "disabled" THEN "skipped"
    ELSE "sent"

FaultsUUID == {"none", "begin", "get", "write", "pub", "commit"}
TxFaults == {"none", "begin", "write", "pub", "commit"}

\* the body of the transaction of a write: the repository call, then the publish
TxBody(w, mode, fault) ==
    IF w.err # Nil THEN [err |-> w.err, panic |-> None, tbl |-> w.tbl, pub |-> "none"]
    ELSE [err |-> Nil, panic |-> None, tbl |-> w.tbl,
          pub |-> SendOutcome(mode, fault = "pub")]

\* the task built by UseCase.CreateTask; uuid.New() is the next unused identifier
NewModelsTask(uuid, in, tm) ==
    [ID |-> uuid, Name |-> in.Name, Description |-> in.Description,
     Priority |-> in.Priority, Status |-> StatusPending, CreatedAt |-> tm,
     UpdatedAt |-> tm, CompletedAt |-> None]

\* UseCase.CreateTask
UseCaseCreateTask(tbl, seq, in, tm, mode, fault) ==
    LET task == NewModelsTask(seq, in, tm)
        tx   == WithinTransaction(tbl,
                    TxBody(TaskRepositoryCreate(tbl, task, fault = "write"), mode, fault),
                    fault = "begin", fault = "commit")
    IN  IF tx.err # Nil
            THEN [err |-> Wrap("failed to create task", tx.err), tbl |-> tx.tbl,
                  seq |-> seq + 1, ret |-> None, pub |-> tx.pub]
        ELSE [err |-> Nil, tbl |-> tx.tbl, seq |-> seq + 1, ret |-> Some(task),
              pub |-> tx.pub]

\* UseCase.GetTask
UseCaseGetTask(tbl, seq, id, fault) ==
    LET g == TaskRepositoryGetByID(tbl, id, fault = "get")
    IN  IF g.err # Nil
            THEN [err |-> Wrap("failed to get task", g.err), tbl |-> tbl, seq |-> seq,
                  ret |-> None, pub |-> "none"]
        ELSE [err |-> Nil, tbl |-> tbl, seq |-> seq, ret |-> g.task, pub |-> "none"]

\* the merge of UseCase.UpdateTask
MergeUpdate(t, in, tm) ==
    [t EXCEPT !.Name = IF IsSome(in.Name) THEN Get(in.Name) ELSE @,
              !.Description = IF IsSome(in.Description) THEN Get(in.Description) ELSE @,
              !.Priority = IF IsSome(in.Priority) THEN Get(in.Priority) ELSE @,
              !.Status = IF IsSome(in.Status) THEN Get(in.Status) ELSE @,
              !.CompletedAt = IF IsSome(in.Status) /\ Get(in.Status) = StatusCompleted
                                  THEN Some(tm) ELSE @,
              !.UpdatedAt = tm]

\* UseCase.UpdateTask
UseCaseUpdateTask(tbl, seq, id, in, tm, mode, fault) ==
    LET g == TaskRepositoryGetByID(tbl, id, fault = "get")
    IN  IF g.err # Nil
            THEN [err |-> Wrap("failed to get task", g.err), tbl |-> tbl, seq |-> seq,
                  ret |-> None, pub |-> "none"]
        ELSE LET task == MergeUpdate(Get(g.task), in, tm)
                 tx   == WithinTransaction(tbl,
                             TxBody(TaskRepositoryUpdate(tbl, task, fault = "write"),
                                    mode, fault),
                             fault = "begin", fault = "commit")
             IN  IF tx.err # Nil
                     THEN [err |-> Wrap("failed to update task", tx.err), tbl |-> tx.tbl,
                           seq |-> seq, ret |-> None, pub |-> tx.pub]
                 ELSE [err |-> Nil, tbl |-> tx.tbl, seq |-> seq, ret |-> Some(task),
                       pub |-> tx.pub]

\* UseCase.DeleteTask
UseCaseDeleteTask(tbl, seq, id, mode, fault) ==
    LET tx == WithinTransaction(tbl,
                  TxBody(TaskRepositoryDelete(tbl, id, fault = "write"), mode, fault),
                  fault = "begin", fault = "commit")
    IN  IF tx.err # Nil
            THEN [err |-> Wrap("failed to delete task", tx.err), tbl |-> tx.tbl,
                  seq |-> seq, ret |-> None, pub |-> tx.pub]
        ELSE [err |-> Nil, tbl |-> tx.tbl, seq |-> seq, ret |-> None, pub |-> tx.pub]

\* UseCase.CompleteTask: UpdateTask with status completed
UseCaseCompleteTask(tbl, seq, id, tm, mode, fault) ==
    UseCaseUpdateTask(tbl, seq, id, [NoUpdate EXCEPT !.Status = Some(StatusCompleted)],
                      tm, mode, fault)

----------------------------------------------------------------------------
(* The requests the model serves. *)

TaskIDs == 1..MaxTasks
UserIDs == {0, 1, 2}

\* a create input that satisfies the task invariants
GoodCreate ==
    [Name |-> Str("a", 1), Description |-> "d0", Priority |-> PriorityLow, CreatedBy |-> 1]

CreateInputs ==
    {GoodCreate,
     [GoodCreate EXCEPT !.Name = NameOfLen(MaxNameLen), !.Priority = PriorityMedium],
     [GoodCreate EXCEPT !.Name = <<>>],
     [GoodCreate EXCEPT !.Name = Str(" ", 2)],
     [GoodCreate EXCEPT !.Name = NameOfLen(MaxNameLen + 1)],
     [GoodCreate EXCEPT !.Priority = "urgent"],
     [GoodCreate EXCEPT !.CreatedBy = 0],
     [GoodCreate EXCEPT !.CreatedBy = -1]}

\* partial updates: one field present, or a pair of them

UpdateInputs ==
    {NoUpdate}
    \cup {[NoUpdate EXCEPT !.Name = Some(n)] :
            n \in {Str(" ", 1), Str("b", 1), NameOfLen(MaxNameLen + 1)}}
    \cup {[NoUpdate EXCEPT !.Description = Some("d1")]}
    \cup {[NoUpdate EXCEPT !.Status = Some(s)] :
            s \in {TaskStatusPending, TaskStatusInProgress, TaskStatusCompleted,
                   TaskStatusCancelled, "archived"}}
    \cup {[NoUpdate EXCEPT !.Priority = Some(p)] : p \in {PriorityHigh, "urgent"}}
    \cup {[NoUpdate EXCEPT !.Description = Some("d1"), !.Priority = Some(p)] :
            p \in {PriorityHigh, "urgent"}}

Request(op, id, in) == [op |-> op, id |-> id, in |-> in]

Requests ==
    {Request("CreateTask", 0, in) : in \in CreateInputs}
    \cup {Request("GetTask", id, None) : id \in TaskIDs}
    \cup {Request("UpdateTask", id, in) : id \in TaskIDs, in \in UpdateInputs}
    \cup {Request("DeleteTask", id, None) : id \in TaskIDs}
    \cup {Request("AssignTask", id, [UserID |-> u]) : id \in TaskIDs, u \in UserIDs}
    \cup {Request("CompleteTask", id, None) : id \in TaskIDs}

----------------------------------------------------------------------------
(* http.TaskHandler (internal/delivery/http): the status written for a     *)
(* use-case result.                                                        *)

StatusOK == 200
StatusCreated == 201
StatusNoContent == 204
StatusBadRequest == 400
StatusUnauthorized == 401
StatusNotFound == 404
StatusInternalServerError == 500

\* TaskHandler.validateCreateTaskRequest: the error returned
validateCreateTaskRequest(in) ==
    IF TrimSpace(in.Name) = <<>> THEN <<"name is required">>
    ELSE IF StrLen(in.Name) > MaxNameLen THEN <<"name is too long (max 255 characters)">>
    ELSE IF in.Priority = "" THEN <<"priority is required">>
    ELSE IF ~PriorityIsValid(in.Priority)
        THEN <<"invalid priority (allowed: low, medium, high)">>
    ELSE IF in.CreatedBy <= 0 THEN <<"created_by is required">>
    ELSE Nil

\* the check of TaskHandler.AssignTask on the decoded body: the error answered
validateAssignTaskRequest(in) ==
    IF in.UserID <= 0 THEN <<"user_id is required">> ELSE Nil

\* TaskHandler.handleUseCaseError: a switch on the error value itself
handleUseCaseError(err) ==
    IF err = ErrTaskNotFound THEN StatusNotFound
    ELSE IF err \in {ErrEmptyTaskName, ErrTaskNameTooLong, ErrInvalidInput}
        THEN StatusBadRequest
    ELSE IF err = ErrUnauthorized THEN StatusUnauthorized
    ELSE StatusInternalServerError

\* the message handleUseCaseError hands to respondError: err.Error() in the
\* cases it names, a fixed text in the default case. A message is the chain
\* of texts that Error() joins.
InternalServerErrorMessage == <<"internal server error">>

handleUseCaseErrorMessage(err) ==
    IF handleUseCaseError(err) = StatusInternalServerError THEN InternalServerErrorMessage
    ELSE err

\* the status a handler writes when the use case returns nil
SuccessStatus(op) ==
    IF op = "CreateTask" THEN StatusCreated
    ELSE IF op = "DeleteTask" THEN StatusNoContent
    ELSE StatusOK

\* the status of the response to operation op whose use case returned err
ResponseStatus(op, err) == IF err = Nil THEN SuccessStatus(op) ELSE handleUseCaseError(err)

\* the error message in the body of that response: none on success
ResponseMessage(op, err) == IF err = Nil THEN Nil ELSE handleUseCaseErrorMessage(err)

\* the answer to a request: the use case's result, the status and the error
\* message written, the fault that struck, and the table as the request
\* found it; by tells whether the use case was called or the handler
\* answered on its own
Response(r, code, body, fault, before) ==
    [err |-> r.err, code |-> code, body |-> body, by |-> "usecase", pub |-> r.pub,
     ret |-> r.ret, fault |-> fault, before |-> before]

\* a faulty rejection that answers 422 Unprocessable Entity; C16 does not
\* hold of it
RejectionUnprocessable(err, before) ==
    [err |-> err, code |-> 422, body |-> err, by |-> "handler",
     pub |-> "none", ret |-> None, fault |-> "none", before |-> before]

\* the answer of a handler that rejects the request before calling the use case
Rejection(err, before) ==
    [err |-> err, code |-> StatusBadRequest, body |-> err, by |-> "handler",
     pub |-> "none", ret |-> None, fault |-> "none", before |-> before]

----------------------------------------------------------------------------
(* What the parts of the program that a specification leaves out stay at. *)

\* no component registered, main not past initApp
LifecycleIdle ==
    /\ manager = "lifecycle.Manager"
    /\ services = <<>>
    /\ calls = <<>>
    /\ phase = "init"
    /\ started = None
    /\ stopped = None

\* no transaction run
TxIdle == store = <<>> /\ lastTx = None

\* no request served concurrently
RaceIdle == inflight = <<>> /\ journal = <<>>

\* no request served
UseCaseIdle ==
    /\ tasks = <<>>
    /\ nextID = 1
    /\ now = 1
    /\ deleted = {}
    /\ producer = "enabled"
    /\ served = 0
    /\ req = None
    /\ resp = None

----------------------------------------------------------------------------
(* Spec: the int64-keyed use case serving one request at a time. *)

Idle == req = None
Pending(op) == req # None /\ resp = None /\ Get(req).op = op
Answered == req # None /\ resp # None

Init ==
    /\ tasks = <<>>
    /\ nextID = 1
    /\ now = 1
    /\ deleted = {}
    /\ producer = "enabled"
    /\ served = 0
    /\ req = None
    /\ resp = None
    /\ LifecycleIdle
    /\ TxIdle
    /\ RaceIdle

\* time passes between two requests
Tick ==
    /\ Idle
    /\ now < MaxClock
    /\ now' = now + 1
    /\ UNCHANGED <<tasks, nextID, deleted, producer, served, req, resp, lcVars, txVars, rcVars>>

\* a request arrives
Receive ==
    /\ Idle
    /\ served < MaxRequests
    /\ \E r \in Requests :
        /\ r.op = "CreateTask" => nextID <= MaxTasks
        /\ req' = Some(r)
    /\ UNCHANGED <<tasks, nextID, now, deleted, producer, served, resp, lcVars, txVars, rcVars>>

\* the use case has run: its effect on the table and its answer
Answer(r, code, body, fault) ==
    /\ tasks' = r.tbl
    /\ nextID' = r.seq
    /\ deleted' = deleted \cup (DOMAIN tasks \ DOMAIN r.tbl)
    /\ resp' = Some(Response(r, code, body, fault, tasks))
    /\ served' = served + 1
    /\ UNCHANGED <<now, producer, req, lcVars, txVars, rcVars>>

\* the handler has answered 400 without calling the use case
Reject(err) ==
    /\ resp' = Some(Rejection(err, tasks))
    /\ served' = served + 1
    /\ UNCHANGED <<tasks, nextID, deleted, now, producer, req, lcVars, txVars, rcVars>>

CreateTask ==
    /\ Pending("CreateTask")
    /\ LET verr == validateCreateTaskRequest(Get(req).in)
       IN  IF verr # Nil THEN Reject(verr)
           ELSE \E fault \in WriteFaults :
                   LET r == UCCreateTask(tasks, nextID, Get(req).in, now, fault)
                   IN  Answer(r, ResponseStatus("CreateTask", r.err),
                              ResponseMessage("CreateTask", r.err), fault)

GetTask ==
    /\ Pending("GetTask")
    /\ \E fault \in ReadFaults :
        LET r == UCGetTask(tasks, nextID, Get(req).id, fault)
        IN  Answer(r, ResponseStatus("GetTask", r.err),
                   ResponseMessage("GetTask", r.err), fault)

UpdateTask ==
    /\ Pending("UpdateTask")
    /\ \E fault \in Faults :
        LET r == UCUpdateTask(tasks, nextID, Get(req).id, Get(req).in, now, fault)
        IN  Answer(r, ResponseStatus("UpdateTask", r.err),
                   ResponseMessage("UpdateTask", r.err), fault)

DeleteTask ==
    /\ Pending("DeleteTask")
    /\ \E fault \in WriteFaults :
        LET r == UCDeleteTask(tasks, nextID, Get(req).id, fault)
        IN  Answer(r, ResponseStatus("DeleteTask", r.err),
                   ResponseMessage("DeleteTask", r.err), fault)

AssignTask ==
    /\ Pending("AssignTask")
    /\ LET verr == validateAssignTaskRequest(Get(req).in)
       IN  IF verr # Nil THEN Reject(verr)
           ELSE \E fault \in Faults :
                   LET r == UCAssignTask(tasks, nextID, Get(req).id, Get(req).in.UserID,
                                         now, fault)
                   IN  Answer(r, ResponseStatus("AssignTask", r.err),
                              ResponseMessage("AssignTask", r.err), fault)

CompleteTask ==
    /\ Pending("CompleteTask")
    /\ \E fault \in Faults :
        LET r == UCCompleteTask(tasks, nextID, Get(req).id, now, fault)
        IN  Answer(r, ResponseStatus("CompleteTask", r.err),
                   ResponseMessage("CompleteTask", r.err), fault)

\* the answer has been written to the client
Reply ==
    /\ Answered
    /\ req' = None
    /\ resp' = None
    /\ UNCHANGED <<tasks, nextID, now, deleted, producer, served, lcVars, txVars, rcVars>>

Next ==
    \/ Tick
    \/ Receive
    \/ CreateTask
    \/ GetTask
    \/ UpdateTask
    \/ DeleteTask
    \/ AssignTask
    \/ CompleteTask
    \/ Reply

Spec == Init /\ [][Next]_vars

----------------------------------------------------------------------------
(* SpecUUID: the UUID-keyed use case behind handlers.TaskHandler, serving  *)
(* one request at a time. nextID counts the identifiers uuid.New() has     *)
(* handed out.                                                             *)

CreateInputsUUID ==
    {[Name |-> Str("a", 1), Description |-> "d0", Priority |-> PriorityLow],
     [Name |-> <<>>, Description |-> "d0", Priority |-> PriorityLow],
     [Name |-> Str(" ", 2), Description |-> "d0", Priority |-> "urgent"]}

\* partial updates of the UUID-keyed service: no field, or one field present
UpdateInputsUUID ==
    {NoUpdate,
     [NoUpdate EXCEPT !.Name = Some(Str(" ", 1))],
     [NoUpdate EXCEPT !.Description = Some("d1")],
     [NoUpdate EXCEPT !.Status = Some(StatusPending)],
     [NoUpdate EXCEPT !.Status = Some("archived")],
     [NoUpdate EXCEPT !.Priority = Some(PriorityHigh)]}

RequestsUUID ==
    {Request("CreateTask", 0, in) : in \in CreateInputsUUID}
    \cup {Request("GetTask", id, None) : id \in TaskIDs}
    \cup {Request("UpdateTask", id, in) : id \in TaskIDs, in \in UpdateInputsUUID}
    \cup {Request("DeleteTask", id, None) : id \in TaskIDs}
    \cup {Request("CompleteTask", id, None) : id \in TaskIDs}

\* handlers.TaskHandler: createTask, getTask, updateTask, deleteTask write a
\* fixed status for any error of the use case; CompleteTask has no route (0)
HandlerStatus(op, err) ==
    IF op = "CompleteTask" THEN 0
    ELSE IF err = Nil THEN SuccessStatus(op)
    ELSE IF op = "GetTask" THEN StatusNotFound
    ELSE StatusInternalServerError

\* the error message these handlers write: a fixed text for each of them
HandlerMessage(op, err) ==
    IF op = "CompleteTask" \/ err = Nil THEN Nil
    ELSE IF op = "CreateTask" THEN <<"Failed to create task">>
    ELSE IF op = "GetTask" THEN <<"Task not found">>
    ELSE IF op = "UpdateTask" THEN <<"Failed to update task">>
    ELSE <<"Failed to delete task">>

InitUUID ==
    /\ tasks = <<>>
    /\ nextID = 1
    /\ now = 1
    /\ deleted = {}
    /\ producer \in ProducerModes
    /\ served = 0
    /\ req = None
    /\ resp = None
    /\ LifecycleIdle
    /\ TxIdle
    /\ RaceIdle

ReceiveUUID ==
    /\ Idle
    /\ served < MaxRequests
    /\ \E r \in RequestsUUID :
        /\ r.op = "CreateTask" => nextID <= MaxTasks
        /\ req' = Some(r)
    /\ UNCHANGED <<tasks, nextID, now, deleted, producer, served, resp, lcVars, txVars, rcVars>>

CreateTaskUUID ==
    /\ Pending("CreateTask")
    /\ IF Get(req).in.Name = <<>> THEN Reject(<<"Name is required">>)
       ELSE \E fault \in TxFaults :
               LET r == UseCaseCreateTask(tasks, nextID, Get(req).in, now, producer, fault)
               IN  Answer(r, HandlerStatus("CreateTask", r.err),
                          HandlerMessage("CreateTask", r.err), fault)

GetTaskUUID ==
    /\ Pending("GetTask")
    /\ \E fault \in ReadFaults :
        LET r == UseCaseGetTask(tasks, nextID, Get(req).id, fault)
        IN  Answer(r, HandlerStatus("GetTask", r.err),
                   HandlerMessage("GetTask", r.err), fault)

UpdateTaskUUID ==
    /\ Pending("UpdateTask")
    /\ \E fault \in FaultsUUID :
        LET r == UseCaseUpdateTask(tasks, nextID, Get(req).id, Get(req).in, now,
                                   producer, fault)
        IN  Answer(r, HandlerStatus("UpdateTask", r.err),
                   HandlerMessage("UpdateTask", r.err), fault)

DeleteTaskUUID ==
    /\ Pending("DeleteTask")
    /\ \E fault \in TxFaults :
        LET r == UseCaseDeleteTask(tasks, nextID, Get(req).id, producer, fault)
        IN  Answer(r, HandlerStatus("DeleteTask", r.err),
                   HandlerMessage("DeleteTask", r.err), fault)

CompleteTaskUUID ==
    /\ Pending("CompleteTask")
    /\ \E fault \in FaultsUUID :
        LET r == UseCaseCompleteTask(tasks, nextID, Get(req).id, now, producer, fault)
        IN  Answer(r, HandlerStatus("CompleteTask", r.err),
                   HandlerMessage("CompleteTask", r.err), fault)

NextUUID ==
    \/ Tick
    \/ ReceiveUUID
    \/ CreateTaskUUID
    \/ GetTaskUUID
    \/ UpdateTaskUUID
    \/ DeleteTaskUUID
    \/ CompleteTaskUUID
    \/ Reply

SpecUUID == InitUUID /\ [][NextUUID]_vars

----------------------------------------------------------------------------
(* Listing: TaskHandler.ListTasks -> TaskUseCase.ListTasks ->              *)
(* TaskRepository.GetAll of the int64-keyed service.                       *)

\* the number of rows in the table a list request finds, and the number of
\* list requests served in a run
MaxListed == 5
MaxListRequests == 1

\* filter := task.ListTasksFilter{Limit: 50, ...}; l > 0 && l <= 100
DefaultLimit == 50
MaxLimit == 100

\* the value of a query parameter: the decimal text of n, or a text that is
\* not a number
Num(n) == [digits |-> TRUE, n |-> n]
NotNum == [digits |-> FALSE, n |-> 0]

\* strconv.Atoi / strconv.ParseInt: [err, n]
Atoi(v) == [err |-> ~v.digits, n |-> IF v.digits THEN v.n ELSE 0]

\* the filter TaskHandler.ListTasks builds from the query: q.status and
\* q.priority are texts ("" when absent), the others None or Some(value)
ParseListQuery(q) ==
    [Status |-> IF q.status # "" THEN Some(q.status) ELSE None,
     Priority |-> IF q.priority # "" THEN Some(q.priority) ELSE None,
     AssignedTo |-> IF IsSome(q.assigned_to) /\ ~Atoi(Get(q.assigned_to)).err
                        THEN Some(Atoi(Get(q.assigned_to)).n) ELSE None,
     Limit |-> IF /\ IsSome(q.limit)
                  /\ ~Atoi(Get(q.limit)).err
                  /\ Atoi(Get(q.limit)).n > 0
                  /\ Atoi(Get(q.limit)).n <= MaxLimit
                   THEN Atoi(Get(q.limit)).n ELSE DefaultLimit,
     Offset |-> IF /\ IsSome(q.offset)
                   /\ ~Atoi(Get(q.offset)).err
                   /\ Atoi(Get(q.offset)).n >= 0
                    THEN Atoi(Get(q.offset)).n ELSE 0]

\* WHERE 1=1 AND status = .. AND priority = .. AND assigned_to = ..: the ids
\* of the rows selected (a NULL assigned_to equals nothing)
Matching(tbl, filter) ==
    {id \in DOMAIN tbl :
        /\ IsSome(filter.Status) => tbl[id].Status = Get(filter.Status)
        /\ IsSome(filter.Priority) => tbl[id].Priority = Get(filter.Priority)
        /\ IsSome(filter.AssignedTo) => tbl[id].AssignedTo = filter.AssignedTo}

\* a faulty ORDER BY that puts the oldest first; C14 does not hold of it
RECURSIVE OrderByCreatedAtAsc(_, _)
OrderByCreatedAtAsc(tbl, ids) ==
    IF ids = {} THEN {<<>>}
    ELSE LET first == {x \in ids : \A y \in ids : tbl[x].CreatedAt <= tbl[y].CreatedAt}
         IN  UNION {{<<x>> \o o : o \in OrderByCreatedAtAsc(tbl, ids \ {x})} : x \in first}

\* ORDER BY created_at DESC: the orders the database can deliver the rows
\* in; rows of equal created_at come in any order
RECURSIVE OrderByCreatedAtDesc(_, _)
OrderByCreatedAtDesc(tbl, ids) ==
    IF ids = {} THEN {<<>>}
    ELSE LET first == {x \in ids : \A y \in ids : tbl[x].CreatedAt >= tbl[y].CreatedAt}
         IN  UNION {{<<x>> \o o : o \in OrderByCreatedAtDesc(tbl, ids \ {x})} : x \in first}

\* the first n elements of a sequence, and what is left without them
Take(seq, n) == [j \in 1..(IF n < Len(seq) THEN n ELSE Len(seq)) |-> seq[j]]
Drop(seq, n) == [j \in 1..(IF n < Len(seq) THEN Len(seq) - n ELSE 0) |-> seq[j + n]]

\* LIMIT and OFFSET, each in the query only when it is > 0
LimitOffset(ids, limit, offset) ==
    LET rest == IF offset > 0 THEN Drop(ids, offset) ELSE ids
    IN  IF limit > 0 THEN Take(rest, limit) ELSE rest

\* TaskRepository.GetAll: the outcomes [err, tasks] it can have. dbFail: the
\* query fails. The loop over rows.Next() ends when the iteration fails as
\* when it is done, and rows.Err() is not looked at: with cut the iteration
\* fails before the last row, and what was read is returned with nil.
RepoGetAll(tbl, filter, dbFail, cut) ==
    IF dbFail THEN {[err |-> Wrap("failed to get tasks", ErrDriver), tasks |-> <<>>]}
    ELSE LET pages == {LimitOffset(o, filter.Limit, filter.Offset) :
                          o \in OrderByCreatedAtDesc(tbl, Matching(tbl, filter))}
             rows(page) == [j \in 1..Len(page) |-> tbl[page[j]]]
         IN  IF cut
                 THEN UNION {{[err |-> Nil, tasks |-> rows(Take(page, k))] :
                                 k \in 0..(Len(page) - 1)} : page \in pages}
             ELSE {[err |-> Nil, tasks |-> rows(page)] : page \in pages}

\* TaskUseCase.ListTasks: the results it can have; fault "rows" is a failure
\* of the iteration over the rows
UCListTasks(tbl, seq, filter, fault) ==
    {IF g.err # Nil
         THEN [err |-> Wrap("failed to list tasks", g.err), tbl |-> tbl, seq |-> seq,
               ret |-> None, pub |-> "none"]
     ELSE [err |-> Nil, tbl |-> tbl, seq |-> seq, ret |-> Some(g.tasks), pub |-> "none"] :
        g \in RepoGetAll(tbl, filter, fault = "get", fault = "rows")}

ListFaults == {"none", "get", "rows"}

(* SpecList: list requests on a table that earlier requests have filled.   *)

\* the rows that creating, assigning and completing tasks leaves: status,
\* priority and assignee
Profiles ==
    {[Status |-> TaskStatusPending, Priority |-> PriorityLow, AssignedTo |-> None],
     [Status |-> TaskStatusInProgress, Priority |-> PriorityHigh, AssignedTo |-> Some(1)],
     [Status |-> TaskStatusCompleted, Priority |-> PriorityLow, AssignedTo |-> Some(1)]}

\* the creation instants of rows 1..n: one instant each, in the order of the
\* ids, or so with the two newest rows created in the same instant
Stamps(n) ==
    {[i \in 1..n |-> i]}
    \cup {[i \in 1..n |-> IF i > k THEN i - 1 ELSE i] : k \in {n - 1} \ {0}}

\* the row with id i
ListedRow(i, profile, at) ==
    [ID |-> i, Name |-> Str("a", 1), Description |-> "d0", Status |-> profile.Status,
     Priority |-> profile.Priority, AssignedTo |-> profile.AssignedTo, CreatedBy |-> 1,
     CreatedAt |-> at, UpdatedAt |-> at]

ListTables ==
    UNION {{[i \in 1..n |-> ListedRow(i, profile[i], at[i])] :
               profile \in [1..n -> Profiles], at \in Stamps(n)} : n \in 0..MaxListed}

NoQuery == [status |-> "", priority |-> "", assigned_to |-> None, limit |-> None,
            offset |-> None]

\* the queries of GET /tasks: filters with the default page, pages without a
\* filter, and both
ListQueries ==
    {NoQuery,
     [NoQuery EXCEPT !.status = TaskStatusPending],
     [NoQuery EXCEPT !.priority = PriorityLow],
     [NoQuery EXCEPT !.assigned_to = Some(Num(1))],
     [NoQuery EXCEPT !.assigned_to = Some(NotNum)],
     [NoQuery EXCEPT !.status = TaskStatusCompleted, !.priority = PriorityLow],
     [NoQuery EXCEPT !.status = TaskStatusInProgress, !.priority = PriorityLow,
                     !.assigned_to = Some(Num(1))]}
    \cup {[NoQuery EXCEPT !.limit = Some(Num(2)), !.offset = o] :
            o \in {None, Some(Num(1)), Some(Num(0 - 1)), Some(NotNum)}}
    \cup {[NoQuery EXCEPT !.limit = Some(l)] : l \in {Num(0), Num(MaxLimit + 1), NotNum}}
    \cup {[NoQuery EXCEPT !.priority = PriorityLow, !.limit = Some(Num(1)),
                          !.offset = Some(Num(1))]}

InitList ==
    /\ tasks \in ListTables
    /\ nextID = Len(tasks) + 1
    /\ now = IF tasks = <<>> THEN 1 ELSE tasks[Len(tasks)].CreatedAt
    /\ deleted = {}
    /\ producer = "enabled"
    /\ served = 0
    /\ req = None
    /\ resp = None
    /\ LifecycleIdle
    /\ TxIdle
    /\ RaceIdle

ReceiveList ==
    /\ Idle
    /\ served < MaxListRequests
    /\ \E q \in ListQueries : req' = Some(Request("ListTasks", 0, q))
    /\ UNCHANGED <<tasks, nextID, now, deleted, producer, served, resp, lcVars, txVars, rcVars>>

ListTasks ==
    /\ Pending("ListTasks")
    /\ \E fault \in ListFaults :
        \E r \in UCListTasks(tasks, nextID, ParseListQuery(Get(req).in), fault) :
            Answer(r, ResponseStatus("ListTasks", r.err),
                   ResponseMessage("ListTasks", r.err), fault)

NextList ==
    \/ ReceiveList
    \/ ListTasks
    \/ Reply

SpecList == InitList /\ [][NextList]_vars

\* the filter of the list request in hand, and the rows it selects
ListFilter == ParseListQuery(Get(req).in)
Selected == Matching(tasks, ListFilter)

\* the smaller of two numbers
Min(a, b) == IF a < b THEN a ELSE b

\* C14: a list request that the database serves without a failure returns
\* rows of the table only, each at most once and each satisfying every
\* filter field that is present; they come newest first; there are as many
\* as remain of the selected rows after the first offset of them, and at
\* most limit; the row at position j is one that offset + j - 1 selected
\* rows can precede in an order by creation instant, newest first. With 5
\* tasks created at t1 < ... < t5, no filter, limit 2 and offset 0 the
\* result is [t5, t4].
C14_ListFiltersOrdersAndPages ==
    (Answered /\ Get(req).op = "ListTasks" /\ Get(resp).fault = "none")
    => /\ Get(resp).err = Nil
       /\ Get(resp).code = StatusOK
       /\ LET out == Get(Get(resp).ret)
              f   == ListFilter
              newer(row) == {id \in Selected : tasks[id].CreatedAt > row.CreatedAt}
              notOlder(row) == {id \in Selected : tasks[id].CreatedAt >= row.CreatedAt}
          IN  /\ \A j \in 1..Len(out) : out[j].ID \in Selected /\ tasks[out[j].ID] = out[j]
              /\ \A j, k \in 1..Len(out) : j < k => out[j].ID # out[k].ID
              /\ \A j, k \in 1..Len(out) : j < k => out[j].CreatedAt >= out[k].CreatedAt
              /\ Len(out) = Min(f.Limit, IF Cardinality(Selected) > f.Offset
                                             THEN Cardinality(Selected) - f.Offset ELSE 0)
              /\ \A j \in 1..Len(out) :
                    /\ Cardinality(newer(out[j])) <= f.Offset + j - 1
                    /\ Cardinality(notOlder(out[j])) >= f.Offset + j
              /\ (/\ Len(tasks) = 5
                  /\ \A i \in 1..4 : tasks[i].CreatedAt < tasks[i + 1].CreatedAt
                  /\ Selected = DOMAIN tasks /\ f.Limit = 2 /\ f.Offset = 0)
                 => [j \in 1..Len(out) |-> out[j].ID] = <<5, 4>>

\* 5 tasks created at t1 < ... < t5 were listed with limit=2 and the answer
\* is [t5, t4]
C14_Witness_NewestTwoOfFive ==
    /\ Answered /\ Get(req).op = "ListTasks" /\ Get(resp).fault = "none"
    /\ Len(tasks) = 5
    /\ \A i \in 1..4 : tasks[i].CreatedAt < tasks[i + 1].CreatedAt
    /\ Get(req).in.limit = Some(Num(2)) /\ Get(req).in.offset = None
    /\ Len(Get(Get(resp).ret)) = 2
    /\ Get(Get(resp).ret)[1] = tasks[5]
    /\ Get(Get(resp).ret)[2] = tasks[4]

----------------------------------------------------------------------------
(* SpecRace: UpdateTask requests on one task served concurrently, each by  *)
(* its own goroutine of the HTTP server. A request goes through            *)
(* TaskUseCase.UpdateTask in two steps that others can run between: the    *)
(* load (GetByID, merge, Validate) and the save (Update, publish). Each    *)
(* statement is atomic in the database; nothing else orders the requests.  *)
(* The requests are served within one tick of the clock.                   *)

\* the number of requests served concurrently
MaxWorkers == 2

Workers == 1..MaxWorkers

\* the task the requests address: the first one created
RaceTaskID == 1

\* the updates the requests ask for: one field each, or none, or a blank name
RaceInputs ==
    {NoUpdate,
     [NoUpdate EXCEPT !.Name = Some(Str("b", 1))],
     [NoUpdate EXCEPT !.Description = Some("d1")],
     [NoUpdate EXCEPT !.Priority = Some(PriorityHigh)],
     [NoUpdate EXCEPT !.Name = Some(Str(" ", 1))]}

\* a goroutine with no request
NoRequest ==
    [pc |-> "idle", in |-> NoUpdate, loaded |-> None, task |-> None, err |-> Nil,
     code |-> 0, fault |-> "none"]

InitRace ==
    /\ tasks = UCCreateTask(<<>>, RaceTaskID, GoodCreate, 1, "none").tbl
    /\ nextID = RaceTaskID + 1
    /\ now = 1
    /\ deleted = {}
    /\ producer = "enabled"
    /\ served = 0
    /\ req = None
    /\ resp = None
    /\ inflight = [w \in Workers |-> NoRequest]
    /\ journal = <<>>
    /\ LifecycleIdle
    /\ TxIdle

\* the use case has returned err to goroutine w, and the handler has answered
RaceDone(w, err, fault) ==
    [inflight[w] EXCEPT !.pc = "done", !.err = err, !.fault = fault,
                        !.code = ResponseStatus("UpdateTask", err)]

\* PUT /tasks/{id} arrives and is decoded
RaceReceive(w) ==
    /\ inflight[w].pc = "idle"
    /\ \E in \in RaceInputs :
        inflight' = [inflight EXCEPT ![w] = [@ EXCEPT !.pc = "load", !.in = in]]
    /\ UNCHANGED <<ucVars, journal, lcVars, txVars>>

\* UpdateTask loads the task, merges the input and validates
RaceLoad(w) ==
    /\ inflight[w].pc = "load"
    /\ \E fault \in ReadFaults :
        LET l == UCUpdateTaskLoad(tasks, RaceTaskID, inflight[w].in, now, fault)
        IN  inflight' =
                [inflight EXCEPT ![w] =
                    IF l.err # Nil THEN [RaceDone(w, l.err, fault) EXCEPT !.loaded = l.loaded]
                    ELSE [@ EXCEPT !.pc = "save", !.loaded = l.loaded, !.task = l.task]]
    /\ served' = served + (IF inflight'[w].pc = "done" THEN 1 ELSE 0)
    /\ UNCHANGED <<tasks, nextID, now, deleted, producer, req, resp, journal, lcVars, txVars>>

\* UpdateTask writes the merged task and publishes
RaceSave(w) ==
    /\ inflight[w].pc = "save"
    /\ \E fault \in WriteFaults :
        LET r == UCUpdateTaskSave(tasks, nextID, Get(inflight[w].task), now, fault)
        IN  /\ tasks' = r.tbl
            /\ journal' = IF r.err = Nil
                              THEN Append(journal, [w |-> w, task |-> Get(inflight[w].task)])
                              ELSE journal
            /\ inflight' = [inflight EXCEPT ![w] = RaceDone(w, r.err, fault)]
    /\ served' = served + 1
    /\ UNCHANGED <<nextID, now, deleted, producer, req, resp, lcVars, txVars>>

NextRace ==
    \/ \E w \in Workers : RaceReceive(w)
    \/ \E w \in Workers : RaceLoad(w)
    \/ \E w \in Workers : RaceSave(w)

SpecRace == InitRace /\ [][NextRace]_vars

\* the columns an UPDATE writes from the task it is handed
WrittenColumns == {"Name", "Description", "Status", "Priority", "AssignedTo"}

\* the field of an update input that sets column f, None when there is none
InputOf(in, f) == IF f \in DOMAIN in THEN in[f] ELSE None

\* the last UPDATE executed
LastWrite == journal[Len(journal)]

\* C15: UpdateTask requests on one task that run concurrently do not fail
\* because of one another: each succeeds unless its own merged task is
\* invalid or its own database call fails. The persisted row is the task
\* handed to the UPDATE that executed last: in every column, the value of
\* that request's input if the field is present, else the value that
\* request had loaded, whatever the other requests wrote in between.
C15_LastWriterWins ==
    /\ \A w \in DOMAIN inflight :
        (inflight[w].pc = "done" /\ inflight[w].fault \in {"none", "pub"}
            /\ Validate(ApplyUpdate(Get(inflight[w].loaded), inflight[w].in, 0)) = Nil)
        => inflight[w].err = Nil /\ inflight[w].code = StatusOK
    /\ journal # <<>>
        => LET last == inflight[LastWrite.w]
           IN  \A f \in WrittenColumns :
                /\ tasks[RaceTaskID][f] = LastWrite.task[f]
                /\ tasks[RaceTaskID][f] =
                       IF IsSome(InputOf(last.in, f)) THEN Get(InputOf(last.in, f))
                       ELSE Get(last.loaded)[f]

\* two requests succeeded, one setting the name and then one setting the
\* description; the second had loaded the task before the first wrote, and
\* the name is back to what it was
C15_Witness_LostUpdate ==
    /\ Len(journal) = 2
    /\ journal[1].w # journal[2].w
    /\ inflight[journal[1].w].err = Nil /\ inflight[journal[2].w].err = Nil
    /\ inflight[journal[1].w].pc = "done" /\ inflight[journal[2].w].pc = "done"
    /\ inflight[journal[1].w].in = [NoUpdate EXCEPT !.Name = Some(Str("b", 1))]
    /\ inflight[journal[2].w].in = [NoUpdate EXCEPT !.Description = Some("d1")]
    /\ tasks[RaceTaskID].Name = GoodCreate.Name
    /\ tasks[RaceTaskID].Description = "d1"

----------------------------------------------------------------------------
(* SpecConcurrent: UpdateTask, AssignTask, CompleteTask and DeleteTask     *)
(* requests on one task served concurrently. The first three run two       *)
(* statements that others can run between, the SELECT of GetByID and the   *)
(* UPDATE of Update; DeleteTask runs the one DELETE. The requests are      *)
(* served within one tick of the clock.                                    *)

\* the calls the requests make: [op, in, userID]
ConcurrentCalls ==
    {[op |-> "UpdateTask", in |-> [NoUpdate EXCEPT !.Description = Some("d1")], userID |-> 0],
     [op |-> "AssignTask", in |-> NoUpdate, userID |-> 1],
     [op |-> "CompleteTask", in |-> NoUpdate, userID |-> 0],
     [op |-> "DeleteTask", in |-> NoUpdate, userID |-> 0]}

\* a goroutine with no request; found is whether the statements of the
\* request found the row, in order
NoCall ==
    [pc |-> "idle", op |-> "", in |-> NoUpdate, userID |-> 0, loaded |-> None,
     task |-> None, found |-> <<>>, err |-> Nil, code |-> 0, pub |-> "none",
     fault |-> "none"]

\* the use case of call q up to its write: GetByID, then the merge and
\* Validate, Task.Assign or Task.Complete; [err, loaded, task]
UCLoad(tbl, q, tm, fault) ==
    IF q.op = "UpdateTask" THEN UCUpdateTaskLoad(tbl, RaceTaskID, q.in, tm, fault)
    ELSE LET g == RepoGetByID(tbl, RaceTaskID, fault = "get")
         IN  IF g.err # Nil THEN [err |-> g.err, loaded |-> None, task |-> None]
             ELSE LET m == IF q.op = "AssignTask" THEN Assign(Get(g.task), q.userID, tm)
                           ELSE Complete(Get(g.task), tm)
                  IN  IF m.err # Nil THEN [err |-> m.err, loaded |-> g.task, task |-> None]
                      ELSE [err |-> Nil, loaded |-> g.task, task |-> Some(m.task)]

\* the use case of call q from its write on: Update, then the publish;
\* [err, tbl, pub]
UCSave(tbl, q, task, tm, fault) ==
    LET u == RepoUpdate(tbl, task, tm, fault = "write")
    IN  IF u.err # Nil
            THEN [err |-> Wrap(IF q.op = "UpdateTask" THEN "failed to update task"
                               ELSE "failed to save task", u.err),
                  tbl |-> tbl, pub |-> "none"]
        ELSE [err |-> Nil, tbl |-> u.tbl, pub |-> PublishOutcome(fault = "pub")]

InitConcurrent ==
    /\ tasks = UCCreateTask(<<>>, RaceTaskID, GoodCreate, 1, "none").tbl
    /\ nextID = RaceTaskID + 1
    /\ now = 1
    /\ deleted = {}
    /\ producer = "enabled"
    /\ served = 0
    /\ req = None
    /\ resp = None
    /\ inflight = [w \in Workers |-> NoCall]
    /\ journal = <<>>
    /\ LifecycleIdle
    /\ TxIdle

\* the use case has returned err to goroutine w, and the handler has answered
CallDone(w, err, pub, fault) ==
    [inflight[w] EXCEPT !.pc = "done", !.err = err, !.pub = pub, !.fault = fault,
                        !.code = ResponseStatus(inflight[w].op, err)]

\* a request arrives and is decoded
ConcurrentReceive(w) ==
    /\ inflight[w].pc = "idle"
    /\ \E q \in ConcurrentCalls :
        inflight' = [inflight EXCEPT ![w] =
                        [@ EXCEPT !.pc = IF q.op = "DeleteTask" THEN "delete" ELSE "load",
                                  !.op = q.op, !.in = q.in, !.userID = q.userID]]
    /\ UNCHANGED <<ucVars, journal, lcVars, txVars>>

\* UpdateTask, AssignTask or CompleteTask loads the task and changes its copy
ConcurrentLoad(w) ==
    /\ inflight[w].pc = "load"
    /\ \E fault \in ReadFaults :
        LET l     == UCLoad(tasks, inflight[w], now, fault)
            found == Append(inflight[w].found, RaceTaskID \in DOMAIN tasks)
        IN  inflight' =
                [inflight EXCEPT ![w] =
                    IF l.err # Nil
                        THEN [CallDone(w, l.err, "none", fault) EXCEPT
                                 !.loaded = l.loaded, !.found = found]
                    ELSE [@ EXCEPT !.pc = "save", !.loaded = l.loaded, !.task = l.task,
                                   !.found = found]]
    /\ served' = served + (IF inflight'[w].pc = "done" THEN 1 ELSE 0)
    /\ UNCHANGED <<tasks, nextID, now, deleted, producer, req, resp, journal, lcVars, txVars>>

\* UpdateTask, AssignTask or CompleteTask writes its copy and publishes
ConcurrentSave(w) ==
    /\ inflight[w].pc = "save"
    /\ \E fault \in WriteFaults :
        LET r == UCSave(tasks, inflight[w], Get(inflight[w].task), now, fault)
        IN  /\ tasks' = r.tbl
            /\ journal' = IF r.err = Nil
                              THEN Append(journal, [w |-> w, op |-> inflight[w].op,
                                                    task |-> inflight[w].task])
                              ELSE journal
            /\ inflight' = [inflight EXCEPT ![w] =
                                [CallDone(w, r.err, r.pub, fault) EXCEPT
                                    !.found = Append(@, RaceTaskID \in DOMAIN tasks)]]
    /\ served' = served + 1
    /\ UNCHANGED <<nextID, now, deleted, producer, req, resp, lcVars, txVars>>

\* DeleteTask deletes the row and publishes
ConcurrentDelete(w) ==
    /\ inflight[w].pc = "delete"
    /\ \E fault \in WriteFaults :
        LET r == UCDeleteTask(tasks, nextID, RaceTaskID, fault)
        IN  /\ tasks' = r.tbl
            /\ deleted' = deleted \cup (DOMAIN tasks \ DOMAIN r.tbl)
            /\ journal' = IF r.err = Nil
                              THEN Append(journal, [w |-> w, op |-> "DeleteTask",
                                                    task |-> None])
                              ELSE journal
            /\ inflight' = [inflight EXCEPT ![w] =
                                [CallDone(w, r.err, r.pub, fault) EXCEPT
                                    !.found = Append(@, RaceTaskID \in DOMAIN tasks)]]
    /\ served' = served + 1
    /\ UNCHANGED <<nextID, now, producer, req, resp, lcVars, txVars>>

NextConcurrent ==
    \/ \E w \in Workers : ConcurrentReceive(w)
    \/ \E w \in Workers : ConcurrentLoad(w)
    \/ \E w \in Workers : ConcurrentSave(w)
    \/ \E w \in Workers : ConcurrentDelete(w)

SpecConcurrent == InitConcurrent /\ [][NextConcurrent]_vars

\* goroutine w has answered a request whose database calls did not fail
ServedWithoutFailure(w) ==
    inflight[w].pc = "done" /\ inflight[w].fault \in {"none", "pub"}

\* C22: UpdateTask, AssignTask and CompleteTask return NotFound, answered
\* 404, whenever the task does not exist when the operation is applied, also
\* when a concurrent DeleteTask removes it between the load and the write.
C22_MissingTaskIsNotFound ==
    \A w \in DOMAIN inflight :
        (ServedWithoutFailure(w) /\ inflight[w].op # "DeleteTask"
            /\ \E i \in 1..Len(inflight[w].found) : ~inflight[w].found[i])
        => /\ ErrorsIs(inflight[w].err, ErrTaskNotFound)
           /\ inflight[w].code = StatusNotFound

\* what holds of a task that is missing: the operation fails with an error
\* that errors.Is finds NotFound in, it writes and publishes nothing, and the
\* answer is 404 when the load missed the task and 500 when the write did
MissingTaskFails ==
    \A w \in DOMAIN inflight :
        (ServedWithoutFailure(w) /\ inflight[w].op # "DeleteTask"
            /\ \E i \in 1..Len(inflight[w].found) : ~inflight[w].found[i])
        => /\ ErrorsIs(inflight[w].err, ErrTaskNotFound)
           /\ inflight[w].pub = "none"
           /\ inflight[w].code = IF inflight[w].found[1] THEN StatusInternalServerError
                                  ELSE StatusNotFound

\* the status written by the i-th write, "" for a DELETE
WrittenStatus(i) == IF IsSome(journal[i].task) THEN Get(journal[i].task).Status ELSE ""

\* C23: in every interleaving of concurrent AssignTask and CompleteTask
\* requests on one task, once status completed has been written no later
\* write of such a request replaces it: an AssignTask that loaded the task
\* while it was pending does not write it back as in_progress.
C23_CompletedIsNotOverwritten ==
    \A i, j \in 1..Len(journal) :
        (i < j /\ WrittenStatus(i) = TaskStatusCompleted
            /\ journal[j].op \in {"AssignTask", "CompleteTask"})
        => WrittenStatus(j) = TaskStatusCompleted

\* what the checks on the loaded copy do give: a request that loaded the
\* task as completed writes nothing
CompletedWhenLoadedIsNotWritten ==
    \A j \in 1..Len(journal) :
        journal[j].op \in {"AssignTask", "CompleteTask"}
        => Get(inflight[journal[j].w].loaded).Status # TaskStatusCompleted

\* the goroutines that have answered a DeleteTask whose DELETE did not fail
DeleteAnswered == {w \in DOMAIN inflight : ServedWithoutFailure(w) /\ inflight[w].op = "DeleteTask"}

\* C29: of the concurrent DeleteTask requests on one existing task whose
\* database call did not fail, exactly one returns nil, is answered 204 and
\* publishes the one TaskDeleted event (sent unless the broker fails); every
\* other returns ErrTaskNotFound, is answered 404 and publishes nothing.
C29_OneDeleteSucceeds ==
    DeleteAnswered # {}
    => \E w \in DeleteAnswered :
        /\ inflight[w].err = Nil
        /\ inflight[w].code = StatusNoContent
        /\ inflight[w].found = <<TRUE>>
        /\ inflight[w].pub = PublishOutcome(inflight[w].fault = "pub")
        /\ \A v \in DeleteAnswered \ {w} :
            /\ inflight[v].err = ErrTaskNotFound
            /\ inflight[v].code = StatusNotFound
            /\ inflight[v].found = <<FALSE>>
            /\ inflight[v].pub = "none"

\* two DeleteTask requests have been answered, one 204 with its event sent
\* and the other 404 with none
C29_Witness_TwoDeletes ==
    \E w, v \in DOMAIN inflight :
        /\ w # v
        /\ {w, v} \subseteq DeleteAnswered
        /\ inflight[w].code = StatusNoContent /\ inflight[w].pub = "sent"
        /\ inflight[v].code = StatusNotFound /\ inflight[v].pub = "none"

----------------------------------------------------------------------------
(* SpecTask: the methods of domain.Task called on one task in memory, in   *)
(* any order. tasks holds that one Task under key 1; a method changes it   *)
(* in place, as the Go methods do through their pointer receiver. resp is  *)
(* the last call: [op, userID, err, before].                               *)

\* the number of method calls made on the task
MaxCalls == 3

InitTask ==
    /\ tasks = UCCreateTask(<<>>, RaceTaskID, GoodCreate, 1, "none").tbl
    /\ nextID = RaceTaskID + 1
    /\ now = 1
    /\ deleted = {}
    /\ producer = "enabled"
    /\ served = 0
    /\ req = None
    /\ resp = None
    /\ LifecycleIdle
    /\ TxIdle
    /\ RaceIdle

\* a method has returned r
Called(op, userID, r) ==
    /\ served < MaxCalls
    /\ tasks' = [tasks EXCEPT ![RaceTaskID] = r.task]
    /\ resp' = Some([op |-> op, userID |-> userID, err |-> r.err,
                     before |-> tasks[RaceTaskID]])
    /\ served' = served + 1
    /\ UNCHANGED <<nextID, now, deleted, producer, req, lcVars, txVars, rcVars>>

\* t.Assign(userID)
TaskAssign == \E u \in UserIDs : Called("Assign", u, Assign(tasks[RaceTaskID], u, now))

\* t.Complete()
TaskComplete == Called("Complete", 0, Complete(tasks[RaceTaskID], now))

\* t.Cancel()
TaskCancel == Called("Cancel", 0, Cancel(tasks[RaceTaskID], now))

NextTask ==
    \/ TaskAssign
    \/ TaskComplete
    \/ TaskCancel
    \/ Tick

SpecTask == InitTask /\ [][NextTask]_vars

\* the task in memory
TheTask == tasks[RaceTaskID]

\* C25: Task.Cancel fails on a completed task and on a cancelled one; on a
\* pending or in_progress task it succeeds and the status becomes cancelled;
\* on a cancelled task Assign and Complete both fail.
C25_CancelByStatus ==
    /\ (IsSome(resp) /\ Get(resp).op = "Cancel") =>
        IF Get(resp).before.Status \in {TaskStatusCompleted, TaskStatusCancelled}
            THEN Get(resp).err # Nil /\ TheTask.Status = Get(resp).before.Status
        ELSE Get(resp).err = Nil /\ TheTask.Status = TaskStatusCancelled
    /\ (IsSome(resp) /\ Get(resp).op \in {"Assign", "Complete"}
            /\ Get(resp).before.Status = TaskStatusCancelled) =>
        Get(resp).err # Nil /\ TheTask.Status = TaskStatusCancelled

\* an in_progress task was cancelled, and an Assign to a user after that failed
C25_Witness_AssignAfterCancel ==
    /\ IsSome(resp)
    /\ Get(resp).op = "Assign" /\ Get(resp).userID = 1
    /\ Get(resp).before.Status = TaskStatusCancelled
    /\ IsSome(Get(resp).before.AssignedTo)
    /\ Get(resp).err # Nil
    /\ TheTask.Status = TaskStatusCancelled

----------------------------------------------------------------------------
(* The lifecycle managers: lifecycle.Manager (internal/pkg/lifecycle) with *)
(* Register/StartAll/ShutdownAll over named services, and Manager          *)
(* (unnamed/part_005) with Register/Start/Stop over components. A          *)
(* component is known by its name, a number here; fails is the set of      *)
(* components whose Start (or Shutdown/Stop) returns an error when called. *)
(* A run is [err, calls]: the error returned and the calls made, in order. *)

\* the number of components main can register
MaxComponents == 3

Components == 1..MaxComponents

\* the error a component's op returns when it fails
ComponentError(op, c) == <<[msg |-> "component failed", op |-> op, c |-> c]>>

\* fmt.Errorf(text + " %s: %w", name, err), or " %d: %w" with an index
Errorf(text, which, err) == <<[msg |-> text, which |-> which]>> \o err

\* one call of op on component c, and what it returned
Call(op, c, fails) ==
    [op |-> op, c |-> c, err |-> IF c \in fails THEN ComponentError(op, c) ELSE Nil]

\* a faulty StartAll that goes on past a failed Start; C8 does not hold of it
RECURSIVE StartAllFromPastFailures(_, _, _)
StartAllFromPastFailures(names, i, fails) ==
    IF i > Len(names) THEN [err |-> Nil, calls |-> <<>>]
    ELSE LET call == Call("Start", names[i], fails)
             rest == StartAllFromPastFailures(names, i + 1, fails)
         IN  [err |-> IF call.err # Nil
                          THEN Errorf("failed to start", names[i], call.err)
                          ELSE rest.err,
              calls |-> <<call>> \o rest.calls]

StartAllPastFailures(names, fails) == StartAllFromPastFailures(names, 1, fails)

\* the loop of StartAll from index i on
RECURSIVE StartAllFrom(_, _, _)
StartAllFrom(names, i, fails) ==
    IF i > Len(names) THEN [err |-> Nil, calls |-> <<>>]
    ELSE LET call == Call("Start", names[i], fails)
             rest == StartAllFrom(names, i + 1, fails)
         IN  IF call.err # Nil
                 THEN [err |-> Errorf("failed to start", names[i], call.err),
                       calls |-> <<call>>]
             ELSE [err |-> rest.err, calls |-> <<call>> \o rest.calls]

\* lifecycle.Manager.StartAll
StartAll(names, fails) == StartAllFrom(names, 1, fails)

\* a faulty ShutdownAll that returns at the first failed Shutdown; C9 does not
\* hold of it
RECURSIVE ShutdownAllFromUntilFailure(_, _, _)
ShutdownAllFromUntilFailure(names, i, fails) ==
    IF i < 1 THEN [err |-> Nil, calls |-> <<>>]
    ELSE LET call == Call("Shutdown", names[i], fails)
             rest == ShutdownAllFromUntilFailure(names, i - 1, fails)
         IN  IF call.err # Nil
                 THEN [err |-> Errorf("failed to shutdown", names[i], call.err),
                       calls |-> <<call>>]
             ELSE [err |-> rest.err, calls |-> <<call>> \o rest.calls]

ShutdownAllUntilFailure(names, fails) ==
    ShutdownAllFromUntilFailure(names, Len(names), fails)

\* a faulty ShutdownAll that keeps the first error it meets, not the last; C18
\* does not hold of it
RECURSIVE ShutdownAllFromKeepingFirst(_, _, _, _)
ShutdownAllFromKeepingFirst(names, i, fails, firstErr) ==
    IF i < 1 THEN [err |-> firstErr, calls |-> <<>>]
    ELSE LET call == Call("Shutdown", names[i], fails)
             rest == ShutdownAllFromKeepingFirst(names, i - 1, fails,
                         IF call.err # Nil /\ firstErr = Nil
                             THEN Errorf("failed to shutdown", names[i], call.err)
                             ELSE firstErr)
         IN  [err |-> rest.err, calls |-> <<call>> \o rest.calls]

ShutdownAllKeepingFirst(names, fails) ==
    ShutdownAllFromKeepingFirst(names, Len(names), fails, Nil)

\* the loop of ShutdownAll from index i down, lastErr being what it holds so far
RECURSIVE ShutdownAllFrom(_, _, _, _)
ShutdownAllFrom(names, i, fails, lastErr) ==
    IF i < 1 THEN [err |-> lastErr, calls |-> <<>>]
    ELSE LET call == Call("Shutdown", names[i], fails)
             rest == ShutdownAllFrom(names, i - 1, fails,
                                     IF call.err # Nil
                                         THEN Errorf("failed to shutdown", names[i], call.err)
                                         ELSE lastErr)
         IN  [err |-> rest.err, calls |-> <<call>> \o rest.calls]

\* lifecycle.Manager.ShutdownAll
ShutdownAll(names, fails) == ShutdownAllFrom(names, Len(names), fails, Nil)

\* the loop of Manager.Start from index i on; the error names the index, from 0
RECURSIVE ManagerStartFrom(_, _, _)
ManagerStartFrom(components, i, fails) ==
    IF i > Len(components) THEN [err |-> Nil, calls |-> <<>>]
    ELSE LET call == Call("Start", components[i], fails)
             rest == ManagerStartFrom(components, i + 1, fails)
         IN  IF call.err # Nil
                 THEN [err |-> Errorf("failed to start component", i - 1, call.err),
                       calls |-> <<call>>]
             ELSE [err |-> rest.err, calls |-> <<call>> \o rest.calls]

\* Manager.Start
ManagerStart(components, fails) == ManagerStartFrom(components, 1, fails)

\* the loop of Manager.Stop from index i down: it returns at the first failure
RECURSIVE ManagerStopFrom(_, _, _)
ManagerStopFrom(components, i, fails) ==
    IF i < 1 THEN [err |-> Nil, calls |-> <<>>]
    ELSE LET call == Call("Stop", components[i], fails)
             rest == ManagerStopFrom(components, i - 1, fails)
         IN  IF call.err # Nil
                 THEN [err |-> Errorf("failed to stop component", i - 1, call.err),
                       calls |-> <<call>>]
             ELSE [err |-> rest.err, calls |-> <<call>> \o rest.calls]

\* Manager.Stop
ManagerStop(components, fails) == ManagerStopFrom(components, Len(components), fails)

----------------------------------------------------------------------------
(* SpecLifecycle: main of either service. initApp registers components,    *)
(* main starts them and exits (log.Fatal) when that fails; on the signal   *)
(* it shuts them down and exits.                                           *)

Registered == {services[i] : i \in 1..Len(services)}

InitLifecycle ==
    /\ UseCaseIdle
    /\ TxIdle
    /\ RaceIdle
    /\ manager \in {"lifecycle.Manager", "Manager"}
    /\ services = <<>>
    /\ calls = <<>>
    /\ phase = "init"
    /\ started = None
    /\ stopped = None

\* lifecycle.Manager.Register and Manager.Register: append
Register ==
    /\ phase = "init"
    /\ \E c \in Components \ Registered : services' = Append(services, c)
    /\ UNCHANGED <<manager, calls, phase, started, stopped, ucVars, txVars, rcVars>>

\* main has the manager start its components
Started(r) ==
    /\ calls' = calls \o r.calls
    /\ started' = Some(r.err)
    /\ phase' = IF r.err = Nil THEN "running" ELSE "exited"
    /\ UNCHANGED <<manager, services, stopped, ucVars, txVars, rcVars>>

\* main has the manager stop its components, and returns
Stopped(r) ==
    /\ calls' = calls \o r.calls
    /\ stopped' = Some(r.err)
    /\ phase' = "exited"
    /\ UNCHANGED <<manager, services, started, ucVars, txVars, rcVars>>

\* main (unnamed/part_002): app.lifecycle.StartAll(ctx)
MainStartAll ==
    /\ phase = "init" /\ manager = "lifecycle.Manager"
    /\ \E fails \in SUBSET Registered : Started(StartAll(services, fails))

\* main (unnamed/part_002): app.lifecycle.ShutdownAll(shutdownCtx)
MainShutdownAll ==
    /\ phase = "running" /\ manager = "lifecycle.Manager"
    /\ \E fails \in SUBSET Registered : Stopped(ShutdownAll(services, fails))

\* main (unnamed/part_001): app.lifecycle.Start(ctx)
MainStart ==
    /\ phase = "init" /\ manager = "Manager"
    /\ \E fails \in SUBSET Registered : Started(ManagerStart(services, fails))

\* main (unnamed/part_001): app.lifecycle.Stop(shutdownCtx)
MainStop ==
    /\ phase = "running" /\ manager = "Manager"
    /\ \E fails \in SUBSET Registered : Stopped(ManagerStop(services, fails))

NextLifecycle ==
    \/ Register
    \/ MainStartAll
    \/ MainShutdownAll
    \/ MainStart
    \/ MainStop

SpecLifecycle == InitLifecycle /\ [][NextLifecycle]_vars

\* the calls of op made so far, in order
CallsOf(op) == SelectSeq(calls, LAMBDA call : call.op = op)

\* the first k components registered, each the Start of one call in turn
StartedInOrder(sc) ==
    /\ Len(sc) <= Len(services)
    /\ \A j \in 1..Len(sc) : sc[j].c = services[j]

\* C8: StartAll (and Start of the component manager) calls Start on the
\* registered components in registration order; at the first Start that
\* fails it stops, so no component registered after it is started, and it
\* returns an error that wraps the cause and names the failed component; it
\* returns nil exactly when every Start succeeded.
C8_StartAllStopsAtFirstFailure ==
    IsSome(started) =>
        LET sc == CallsOf("Start")
            n  == Len(sc)
        IN  /\ StartedInOrder(sc)
            /\ \A j \in 1..(n - 1) : sc[j].err = Nil
            /\ IF Get(started) = Nil
                   THEN n = Len(services) /\ \A j \in 1..n : sc[j].err = Nil
               ELSE /\ n >= 1
                    /\ sc[n].err # Nil
                    /\ Tail(Get(started)) = sc[n].err
                    /\ Head(Get(started)).which =
                           IF manager = "lifecycle.Manager" THEN sc[n].c ELSE n - 1
                    /\ \A j \in (n + 1)..Len(services) :
                           \A k \in 1..n : sc[k].c # services[j]

\* a Start failed with components registered after it, which were not started
C8_Witness_FailedMidway ==
    /\ IsSome(started) /\ Get(started) # Nil
    /\ Len(CallsOf("Start")) >= 2
    /\ Len(CallsOf("Start")) < Len(services)

\* the sequence in reverse order
Reverse(seq) == [j \in 1..Len(seq) |-> seq[Len(seq) + 1 - j]]

\* C9: ShutdownAll of lifecycle.Manager calls Shutdown exactly once on every
\* registered component, in reverse registration order, going on past the
\* components whose Shutdown fails, and has made all these calls when it
\* returns.
C9_ShutdownAllReachesEveryComponent ==
    (manager = "lifecycle.Manager" /\ IsSome(stopped)) =>
        LET sc == CallsOf("Shutdown")
        IN  /\ Len(sc) = Len(services)
            /\ [j \in 1..Len(sc) |-> sc[j].c] = Reverse(services)

\* ShutdownAll has returned after a Shutdown failed and later ones were called
C9_Witness_PastAFailure ==
    /\ manager = "lifecycle.Manager" /\ IsSome(stopped)
    /\ LET sc == CallsOf("Shutdown")
       IN  /\ Len(sc) = MaxComponents
           /\ sc[1].err # Nil
           /\ sc[Len(sc)].err = Nil

\* the place of component c in the registration order
IndexOf(c) == CHOOSE i \in 1..Len(services) : services[i] = c

\* the Shutdown calls that returned an error
FailedShutdowns == {j \in 1..Len(CallsOf("Shutdown")) : CallsOf("Shutdown")[j].err # Nil}

\* C18: ShutdownAll returns nil exactly when every Shutdown succeeded; when
\* some failed it returns the error met last in shutdown order, which is the
\* one of the failing component registered earliest, wrapped in a message
\* that names that component.
C18_ShutdownAllReturnsLastError ==
    (manager = "lifecycle.Manager" /\ IsSome(stopped)) =>
        LET sc == CallsOf("Shutdown")
        IN  /\ Get(stopped) = Nil <=> FailedShutdowns = {}
            /\ FailedShutdowns # {} =>
                LET last == CHOOSE j \in FailedShutdowns : \A k \in FailedShutdowns : k <= j
                IN  /\ Get(stopped) = Errorf("failed to shutdown", sc[last].c, sc[last].err)
                    /\ Head(Get(stopped)).which = sc[last].c
                    /\ Tail(Get(stopped)) = ComponentError("Shutdown", sc[last].c)
                    /\ \A k \in FailedShutdowns : IndexOf(sc[last].c) <= IndexOf(sc[k].c)

\* two Shutdowns failed, and the error returned is the one of the component
\* stopped later, not of the one stopped first
C18_Witness_TwoFailures ==
    /\ manager = "lifecycle.Manager" /\ IsSome(stopped)
    /\ Len(services) = MaxComponents
    /\ FailedShutdowns = {1, Len(services)}
    /\ Head(Get(stopped)).which = services[1]

\* C19: Manager.Stop of the component manager calls Stop on every registered
\* component in reverse registration order, going on past a component whose
\* Stop fails, so every component registered before a failing one is stopped.
C19_StopReachesEveryComponent ==
    (manager = "Manager" /\ IsSome(stopped)) =>
        LET sc == CallsOf("Stop")
        IN  /\ Len(sc) = Len(services)
            /\ [j \in 1..Len(sc) |-> sc[j].c] = Reverse(services)

\* what Manager.Stop does: it calls Stop in reverse registration order up to
\* and including the first component whose Stop fails, and returns that error
StopEndsAtFirstFailure ==
    (manager = "Manager" /\ IsSome(stopped)) =>
        LET sc == CallsOf("Stop")
            n  == Len(sc)
        IN  /\ n <= Len(services)
            /\ \A j \in 1..n : sc[j].c = Reverse(services)[j]
            /\ \A j \in 1..(n - 1) : sc[j].err = Nil
            /\ IF Get(stopped) = Nil THEN n = Len(services) /\ (n > 0 => sc[n].err = Nil)
               ELSE n > 0 /\ sc[n].err # Nil

\* the components whose Start returned nil, and those Shutdown or Stop was
\* called on
StartedComponents == {calls[j].c : j \in {k \in 1..Len(calls) :
                                            calls[k].op = "Start" /\ calls[k].err = Nil}}
ShutDownComponents == {calls[j].c : j \in {k \in 1..Len(calls) :
                                             calls[k].op \in {"Shutdown", "Stop"}}}

\* C28: every component whose Start succeeded is shut down before the process
\* exits, also when StartAll fails at a later component: when main has
\* exited, no started component is left without a Shutdown call.
C28_StartedComponentsAreShutDown ==
    phase = "exited" => StartedComponents \subseteq ShutDownComponents

\* what main does when starting fails: it exits at once, and no component,
\* started or not, gets a Shutdown or Stop call
FailedStartExitsWithoutShutdown ==
    (phase = "exited" /\ IsSome(started) /\ Get(started) # Nil)
    => stopped = None /\ ShutDownComponents = {}

----------------------------------------------------------------------------
(* SpecApp: main of either service with the components initApp registers.  *)
(* A component is known by the name lifecycle.Manager is given for it.     *)
(* initApp of unnamed/part_002 registers all six and returns an error when *)
(* one cannot be built; initApp of unnamed/part_001 registers metrics,     *)
(* tracing and the Kafka components only when the configuration enables    *)
(* them, and goes on without a Kafka component that cannot be built.       *)

\* a faulty order that registers the HTTP server before its dependencies; C17
\* as amended does not hold of it
AppComponentsServerFirst ==
    <<"http-server", "metrics", "tracing", "database", "kafka-producer", "kafka-consumer">>

\* the components in the order both initApp functions register them
AppComponents ==
    <<"metrics", "tracing", "database", "kafka-producer", "kafka-consumer", "http-server">>

\* the position of component c in the registration order
Rank(c) == CHOOSE i \in 1..Len(AppComponents) : AppComponents[i] = c

\* the components of set S in registration order
Pick(S) == SelectSeq(AppComponents, LAMBDA c : c \in S)

\* the components registered before component c is built
Before(c) == {AppComponents[i] : i \in 1..(Rank(c) - 1)}

AllComponents == {AppComponents[i] : i \in 1..Len(AppComponents)}

\* the components initApp of unnamed/part_001 registers only when enabled
Optional == {"metrics", "tracing", "kafka-producer", "kafka-consumer"}

\* the constructors that can fail
InitFaults == {"none", "tracing", "database", "kafka-producer", "kafka-consumer"}

\* initApp (unnamed/part_002): [err, services]; fail is the constructor that
\* returns an error
initApp(fail) ==
    IF fail = "none" THEN [err |-> Nil, services |-> AppComponents]
    ELSE [err |-> <<[msg |-> "failed to initialize", which |-> fail]>>,
          services |-> Pick(Before(fail))]

\* initApp (unnamed/part_001): enabled is what the configuration turns on
initAppComponents(enabled, fail) ==
    LET on == enabled \cup {"database", "http-server"}
    IN  IF fail \in {"tracing", "database"} /\ fail \in on
            THEN [err |-> <<[msg |-> "failed to initialize", which |-> fail]>>,
                  services |-> Pick(on \cap Before(fail))]
        ELSE [err |-> Nil, services |-> Pick(on \ {fail})]

\* main has called initApp; it exits when initApp fails
Initialised(r) ==
    /\ services' = r.services
    /\ phase' = IF r.err = Nil THEN "init" ELSE "exited"
    /\ UNCHANGED <<manager, calls, started, stopped, ucVars, txVars, rcVars>>

\* main (unnamed/part_002): initApp(cfg, log)
MainInitApp ==
    /\ phase = "init" /\ services = <<>> /\ manager = "lifecycle.Manager"
    /\ \E fail \in InitFaults : Initialised(initApp(fail))

\* main (unnamed/part_001): initApp(cfg, log)
MainInitAppComponents ==
    /\ phase = "init" /\ services = <<>> /\ manager = "Manager"
    /\ \E enabled \in SUBSET Optional, fail \in InitFaults :
        Initialised(initAppComponents(enabled, fail))

NextApp ==
    \/ MainInitApp
    \/ MainInitAppComponents
    \/ services # <<>> /\ MainStartAll
    \/ services # <<>> /\ MainShutdownAll
    \/ services # <<>> /\ MainStart
    \/ services # <<>> /\ MainStop

SpecApp == InitLifecycle /\ [][NextApp]_vars

\* the components the shutdown has stopped, in the order it called them
StopOrder ==
    LET sc == SelectSeq(calls, LAMBDA c : c.op \in {"Shutdown", "Stop"})
    IN  [j \in 1..Len(sc) |-> sc[j].c]

\* the database and the Kafka producer and consumer
Foundational == {"database", "kafka-producer", "kafka-consumer"}

\* C17 as stated: shutdown stops the HTTP server first, before every other
\* registered component, and the database and the Kafka components are the
\* last components stopped: no other component is stopped after one of them.
C17_ServerFirstFoundationalLast ==
    IsSome(stopped) =>
        /\ StopOrder # <<>> /\ StopOrder[1] = "http-server"
        /\ \A i, j \in 1..Len(StopOrder) :
            (i < j /\ StopOrder[i] \in Foundational) => StopOrder[j] \in Foundational

\* C17 as amended: shutdown stops the components in the reverse of the order
\* initApp registered them: the HTTP server first, then the Kafka consumer,
\* the Kafka producer and the database, and after the database the tracing
\* and metrics components, which were registered before it; ShutdownAll
\* reaches every registered component.
C17_ShutdownReversesInitApp ==
    IsSome(stopped) =>
        /\ StopOrder # <<>> /\ StopOrder[1] = "http-server"
        /\ \A i, j \in 1..Len(StopOrder) :
            i < j => Rank(StopOrder[i]) > Rank(StopOrder[j])
        /\ \A j \in 1..Len(StopOrder) : StopOrder[j] = Reverse(services)[j]
        /\ manager = "lifecycle.Manager" => StopOrder = Reverse(AppComponents)

\* ShutdownAll has stopped all six components: the database fourth, tracing
\* and metrics after it
C17_Witness_MetricsLast ==
    /\ manager = "lifecycle.Manager" /\ IsSome(stopped)
    /\ Len(StopOrder) = Len(AppComponents)
    /\ StopOrder[4] = "database"
    /\ StopOrder[5] = "tracing"
    /\ StopOrder[6] = "metrics"

----------------------------------------------------------------------------
(* SpecTx: callers of the two transaction managers. The function handed to *)
(* the manager writes at most one row through the transaction and then     *)
(* returns nil, returns an error or panics; begin and commit may fail.     *)

\* the keys and the values of the rows a transaction body writes
MaxKeys == 2
MaxValue == 2

Keys == 1..MaxKeys
Values == 1..MaxValue

\* an error of the function, and the value it panics with
ErrFn == <<"fn failed">>
PanicValue == "fn panicked"

\* how the function ends: [err, panic]
Outcomes ==
    {[err |-> Nil, panic |-> None],
     [err |-> ErrFn, panic |-> None],
     [err |-> Wrap("failed to save task", ErrFn), panic |-> None],
     [err |-> Nil, panic |-> Some(PanicValue)]}

\* the table after the function's write: none, an upsert or a delete of one row
Writes(tbl) ==
    {tbl}
    \cup {[k \in DOMAIN tbl \cup {key} |-> IF k = key THEN v ELSE tbl[k]] :
            key \in Keys, v \in Values}
    \cup {[k \in DOMAIN tbl \ {key} |-> tbl[k]] : key \in DOMAIN tbl}

\* what a function can do on a transaction opened on tbl
Bodies(tbl) ==
    {[err |-> o.err, panic |-> o.panic, tbl |-> w, pub |-> "none"] :
        o \in Outcomes, w \in Writes(tbl)}

InitTx ==
    /\ UseCaseIdle
    /\ LifecycleIdle
    /\ RaceIdle
    /\ store = <<>>
    /\ lastTx = None

\* a call of a manager has returned (or panicked): the store and the record
Returned(name, body, r) ==
    /\ store' = r.tbl
    /\ lastTx' = Some([manager |-> name, body |-> body, result |-> r, before |-> store])
    /\ UNCHANGED <<ucVars, lcVars, rcVars>>

CallWithinTransaction ==
    \E body \in Bodies(store), beginFails \in BOOLEAN, commitFails \in BOOLEAN :
        Returned("WithinTransaction", body,
                 WithinTransaction(store, body, beginFails, commitFails))

CallWithTransaction ==
    \E body \in Bodies(store), beginFails \in BOOLEAN, commitFails \in BOOLEAN :
        Returned("WithTransaction", body,
                 WithTransaction(store, body, beginFails, commitFails))

NextTx ==
    \/ CallWithinTransaction
    \/ CallWithTransaction

SpecTx == InitTx /\ [][NextTx]_vars

\* C10: in every call of a transaction manager (WithinTransaction or
\* WithTransaction) whose begin succeeded, exactly one of commit and
\* rollback is made on the transaction: commit if and only if fn returns
\* nil; rollback, with fn's error returned unchanged, if fn returns an
\* error; rollback, with the same panic re-raised, if fn panics. A rollback
\* leaves the store as it was.
C10_CommitOrRollbackExactlyOnce ==
    (IsSome(lastTx) /\ Get(lastTx).result.began) =>
        LET body == Get(lastTx).body
            r    == Get(lastTx).result
        IN  /\ r.ran
            /\ r.commits + r.rollbacks = 1
            /\ r.commits = 1 <=> (body.err = Nil /\ body.panic = None)
            /\ (body.err # Nil /\ body.panic = None)
                   => r.rollbacks = 1 /\ r.err = body.err /\ r.panic = None
            /\ IsSome(body.panic) => r.rollbacks = 1 /\ r.panic = body.panic
            /\ r.rollbacks = 1 => store = Get(lastTx).before

\* a function that wrote a row and then panicked was rolled back and the panic
\* left the call
C10_Witness_PanicRolledBack ==
    /\ IsSome(lastTx) /\ Get(lastTx).result.began
    /\ IsSome(Get(lastTx).body.panic)
    /\ Get(lastTx).body.tbl # Get(lastTx).before
    /\ Get(lastTx).result.rollbacks = 1
    /\ Get(lastTx).result.panic = Some(PanicValue)
    /\ store = Get(lastTx).before

\* the last call of a transaction manager returned nil
ReturnedNil ==
    IsSome(lastTx) /\ Get(lastTx).result.err = Nil /\ Get(lastTx).result.panic = None

\* C27: a transaction manager (WithTransaction and WithinTransaction alike)
\* returns nil only if the commit succeeded: when it has returned nil, the
\* transaction was committed and what fn wrote is in the store; when fn
\* returns nil and the commit fails, the caller gets an error.
C27_NilOnlyAfterCommit ==
    ReturnedNil =>
        /\ Get(lastTx).result.commits = 1
        /\ store = Get(lastTx).body.tbl

\* C27 holds of WithinTransaction, which returns the error of Commit
WithinTransactionNilOnlyAfterCommit ==
    (ReturnedNil /\ Get(lastTx).manager = "WithinTransaction") =>
        /\ Get(lastTx).result.commits = 1
        /\ store = Get(lastTx).body.tbl

----------------------------------------------------------------------------
(* SpecRepoTx: a function handed to TxManager.WithTransaction that calls   *)
(* the int64-keyed TaskRepository. The repository's methods take the       *)
(* context only and run their statement on the pool (r.db.QueryRow,        *)
(* r.db.Pool().Exec), each statement committed on its own; the pgx.Tx the  *)
(* manager opened is handed to the function but no repository method can   *)
(* be given it, so the transaction has no statement of theirs in it.       *)

\* the repository calls the function makes
RepoCalls ==
    {[op |-> "Create", id |-> 0, name |-> GoodCreate.Name]}
    \cup {[op |-> "Update", id |-> i, name |-> Str("b", 1)] : i \in 1..MaxTasks}
    \cup {[op |-> "Delete", id |-> i, name |-> <<>>] : i \in 1..MaxTasks}

\* the pool's table and the sequence after repository call c, which the
\* database serves without failure
RepoCall(tbl, seq, c, tm) ==
    IF c.op = "Create"
        THEN [tbl |-> RepoCreate(tbl, seq, NewTask(GoodCreate), tm, FALSE).tbl, seq |-> seq + 1]
    ELSE IF c.op = "Update"
        THEN [tbl |-> IF c.id \in DOMAIN tbl
                          THEN RepoUpdate(tbl, [tbl[c.id] EXCEPT !.Name = c.name], tm, FALSE).tbl
                          ELSE tbl,
              seq |-> seq]
    ELSE [tbl |-> RepoDelete(tbl, c.id, FALSE).tbl, seq |-> seq]

InitRepoTx ==
    /\ tasks = UCCreateTask(<<>>, 1, GoodCreate, 1, "none").tbl
    /\ nextID = 2
    /\ now = 1
    /\ deleted = {}
    /\ producer = "enabled"
    /\ served = 0
    /\ req = None
    /\ resp = None
    /\ LifecycleIdle
    /\ TxIdle
    /\ RaceIdle

\* WithTransaction(ctx, fn) where fn makes repository call c and then returns
\* nil, returns an error or panics
CallWithTransactionOnRepository ==
    \E c \in RepoCalls, o \in Outcomes, beginFails \in BOOLEAN, commitFails \in BOOLEAN :
        /\ c.op = "Create" => nextID <= MaxTasks
        /\ LET after == IF beginFails THEN [tbl |-> tasks, seq |-> nextID]
                        ELSE RepoCall(tasks, nextID, c, now)
               body  == [err |-> o.err, panic |-> o.panic, tbl |-> after.tbl, pub |-> "none"]
               r     == WithTransaction(after.tbl, body, beginFails, commitFails)
           IN  /\ tasks' = r.tbl
               /\ nextID' = after.seq
               /\ lastTx' = Some([manager |-> "WithTransaction", call |-> c, body |-> body,
                                  result |-> r, before |-> tasks])
        /\ UNCHANGED <<now, deleted, producer, served, req, resp, store, lcVars, rcVars>>

NextRepoTx ==
    \/ CallWithTransactionOnRepository
    \/ Tick

SpecRepoTx == InitRepoTx /\ [][NextRepoTx]_vars

\* the function of the last call was run, and its repository call changed a row
RepositoryWrote ==
    /\ IsSome(lastTx)
    /\ Get(lastTx).result.ran
    /\ Get(lastTx).body.tbl # Get(lastTx).before

\* C20: a repository operation called by fn inside a transaction opened by
\* the transaction manager runs on that transaction: when fn returns an
\* error or panics, none of the writes those calls made is visible
\* afterwards; when fn returns nil, they are committed.
C20_RepositoryWritesFollowTheTransaction ==
    RepositoryWrote =>
        IF Get(lastTx).body.err # Nil \/ IsSome(Get(lastTx).body.panic)
            THEN tasks = Get(lastTx).before
        ELSE Get(lastTx).result.commits = 1 /\ tasks = Get(lastTx).body.tbl

\* what the repository does: its writes are in the table as soon as they are
\* made and stay there whether the transaction commits or rolls back
RepositoryWritesBypassTheTransaction ==
    RepositoryWrote =>
        /\ tasks = Get(lastTx).body.tbl
        /\ tasks # Get(lastTx).before

----------------------------------------------------------------------------
(* SpecServe: an HTTP server answering requests whose handler runs a       *)
(* function through a transaction manager. The server of the int64-keyed   *)
(* service (server.go, New) wraps its handlers in RecoveryMiddleware; the  *)
(* server of the UUID-keyed service (Server.Start) wraps them in its       *)
(* loggingMiddleware only, so a panic of a handler reaches net/http, which *)
(* recovers it in the connection's goroutine, logs it and closes the       *)
(* connection without writing a response. manager tells the two services   *)
(* apart; an answer is [panic, code, body, closed].                        *)

\* what the handler makes of the result r of the transaction manager
HandlerOutcome(r, message) ==
    IF IsSome(r.panic) THEN [panic |-> r.panic, code |-> 0, body |-> <<>>, closed |-> FALSE]
    ELSE IF r.err # Nil
        THEN [panic |-> None, code |-> StatusInternalServerError, body |-> message,
              closed |-> FALSE]
    ELSE [panic |-> None, code |-> StatusOK, body |-> <<>>, closed |-> FALSE]

\* RecoveryMiddleware: recover, WriteHeader(500) and the generic body
RecoveryMiddleware(h) ==
    IF IsSome(h.panic)
        THEN [panic |-> None, code |-> StatusInternalServerError,
              body |-> InternalServerErrorMessage, closed |-> FALSE]
    ELSE h

\* Server.loggingMiddleware: it logs and calls next; a panic passes through
loggingMiddleware(h) == h

\* net/http serving the connection: a panic that reaches it is recovered and
\* logged, and the connection is closed with no response written
ConnServe(h) ==
    IF IsSome(h.panic) THEN [panic |-> None, code |-> 0, body |-> <<>>, closed |-> TRUE]
    ELSE h

InitServe ==
    /\ UseCaseIdle
    /\ TxIdle
    /\ RaceIdle
    /\ manager \in {"lifecycle.Manager", "Manager"}
    /\ services = <<>>
    /\ calls = <<>>
    /\ phase = "running"
    /\ started = Some(Nil)
    /\ stopped = None

\* the request has been served: the store, the record of the call, the answer
Served(name, body, r, answer) ==
    /\ store' = r.tbl
    /\ lastTx' = Some([manager |-> name, body |-> body, result |-> r, before |-> store])
    /\ resp' = Some(answer)
    /\ UNCHANGED <<tasks, nextID, now, deleted, producer, served, req, lcVars, rcVars>>

\* a request to the server built by New (server.go): RecoveryMiddleware
\* around a handler that runs fn through WithTransaction
ServeWithRecovery ==
    /\ manager = "lifecycle.Manager" /\ phase = "running"
    /\ \E body \in Bodies(store), beginFails \in BOOLEAN, commitFails \in BOOLEAN :
        LET r == WithTransaction(store, body, beginFails, commitFails)
        IN  Served("WithTransaction", body, r,
                   ConnServe(RecoveryMiddleware(HandlerOutcome(r, InternalServerErrorMessage))))

\* a request to the server built by Server.Start: loggingMiddleware around a
\* handler whose use case runs fn through WithinTransaction
ServeWithLogging ==
    /\ manager = "Manager" /\ phase = "running"
    /\ \E body \in Bodies(store), beginFails \in BOOLEAN, commitFails \in BOOLEAN :
        LET r == WithinTransaction(store, body, beginFails, commitFails)
        IN  Served("WithinTransaction", body, r,
                   ConnServe(loggingMiddleware(
                       HandlerOutcome(r, HandlerMessage("CreateTask", ErrInternal)))))

NextServe ==
    \/ ServeWithRecovery
    \/ ServeWithLogging

SpecServe == InitServe /\ [][NextServe]_vars

\* fn of the request just served panicked inside the transaction manager
PanickedInTransaction ==
    IsSome(lastTx) /\ IsSome(resp) /\ Get(lastTx).result.began
        /\ IsSome(Get(lastTx).body.panic)

\* C24: when fn panics inside the transaction manager, the transaction is
\* rolled back and never committed and the same panic value leaves the
\* manager; the request is answered 500 with the generic body, and the
\* server goes on answering requests.
C24_PanicIsRolledBackAndAnswered500 ==
    PanickedInTransaction =>
        /\ Get(lastTx).result.rollbacks = 1
        /\ Get(lastTx).result.commits = 0
        /\ Get(lastTx).result.panic = Get(lastTx).body.panic
        /\ store = Get(lastTx).before
        /\ Get(resp).code = StatusInternalServerError
        /\ Get(resp).body = InternalServerErrorMessage
        /\ phase = "running"

\* what holds of both servers: the panic is rolled back and re-raised, and the
\* server goes on; behind RecoveryMiddleware the answer is 500 with the
\* generic body, behind loggingMiddleware alone no response is written and
\* the connection is closed
PanicIsRolledBackAndServerGoesOn ==
    PanickedInTransaction =>
        /\ Get(lastTx).result.rollbacks = 1
        /\ Get(lastTx).result.commits = 0
        /\ Get(lastTx).result.panic = Get(lastTx).body.panic
        /\ store = Get(lastTx).before
        /\ phase = "running"
        /\ IF manager = "lifecycle.Manager"
               THEN /\ Get(resp).code = StatusInternalServerError
                    /\ Get(resp).body = InternalServerErrorMessage
                    /\ ~Get(resp).closed
           ELSE Get(resp).code = 0 /\ Get(resp).closed

----------------------------------------------------------------------------
(* Properties of the int64-keyed use case, stated over the answer to the   *)
(* request in hand: Get(resp).before is the table the request found, tasks *)
(* the table it left.                                                      *)

TerminalStatuses == {TaskStatusCompleted, TaskStatusCancelled}

\* the request in hand addresses a row that was stored when it arrived
OnStoredTask == Answered /\ Get(req).id \in DOMAIN Get(resp).before

\* the row the request in hand addresses, as the request found it
TaskBefore == Get(resp).before[Get(req).id]

\* no collaborator call failed before the publish
NoStorageFault == Get(resp).fault \in {"none", "pub"}

\* C1: once the persisted status of a task is completed or cancelled, no
\* use-case operation changes that status again, UpdateTask with a status
\* field included.
C1_TerminalStatusIsFinal ==
    Answered =>
        \A id \in DOMAIN Get(resp).before \cap DOMAIN tasks :
            Get(resp).before[id].Status \in TerminalStatuses
                => tasks[id].Status = Get(resp).before[id].Status

\* C2: for every stored task and every positive userID, AssignTask fails
\* when the status is completed or cancelled and leaves the row as it was;
\* otherwise it succeeds, the assignee is userID and the status is
\* in_progress (a pending task moves there, an in_progress one stays).
C2_AssignByStatus ==
    (OnStoredTask /\ Get(req).op = "AssignTask" /\ Get(req).in.UserID > 0
        /\ NoStorageFault)
    => IF TaskBefore.Status \in TerminalStatuses
           THEN Get(resp).err # Nil /\ tasks = Get(resp).before
       ELSE /\ TaskBefore.Status \in {TaskStatusPending, TaskStatusInProgress}
            /\ Get(resp).err = Nil
            /\ tasks[Get(req).id].AssignedTo = Some(Get(req).in.UserID)
            /\ tasks[Get(req).id].Status = TaskStatusInProgress

\* a pending task has been assigned to a positive user and is in_progress
C2_Witness_Assigned ==
    /\ OnStoredTask /\ Get(req).op = "AssignTask" /\ Get(req).in.UserID > 0
    /\ TaskBefore.Status = TaskStatusPending
    /\ Get(resp).err = Nil
    /\ tasks[Get(req).id].Status = TaskStatusInProgress
    /\ tasks[Get(req).id].AssignedTo = Some(Get(req).in.UserID)

\* the completion timestamp of a row: nil when the row carries none
CompletedAtOf(row) == IF "CompletedAt" \in DOMAIN row THEN row.CompletedAt ELSE None

\* C3: CompleteTask fails when the status is completed or cancelled;
\* otherwise the status becomes completed and the task carries a completion
\* timestamp that is not before its creation timestamp.
C3_CompleteStampsCompletion ==
    (OnStoredTask /\ Get(req).op = "CompleteTask" /\ NoStorageFault)
    => IF TaskBefore.Status \in TerminalStatuses THEN Get(resp).err # Nil
       ELSE /\ Get(resp).err = Nil
            /\ tasks[Get(req).id].Status = TaskStatusCompleted
            /\ IsSome(CompletedAtOf(tasks[Get(req).id]))
            /\ Get(CompletedAtOf(tasks[Get(req).id])) >= tasks[Get(req).id].CreatedAt

\* C4: for every CreateTask input that satisfies the task invariants, the
\* call succeeds unless the insert fails, and the task returned has status
\* pending, a populated id, populated creation and last-updated timestamps,
\* and is the row stored under that id.
C4_CreateReturnsStoredPendingTask ==
    (Answered /\ Get(req).op = "CreateTask" /\ Validate(NewTask(Get(req).in)) = Nil
        /\ Get(resp).fault # "write")
    => /\ Get(resp).err = Nil
       /\ IsSome(Get(resp).ret)
       /\ LET t == Get(Get(resp).ret)
          IN  /\ t.Status = TaskStatusPending
              /\ t.ID > 0
              /\ t.CreatedAt > 0
              /\ t.UpdatedAt > 0
              /\ t.ID \notin DOMAIN Get(resp).before
              /\ t.ID \in DOMAIN tasks
              /\ tasks[t.ID] = t
              /\ \A id \in DOMAIN Get(resp).before :
                    id \in DOMAIN tasks /\ tasks[id] = Get(resp).before[id]

\* a valid create has been answered with the stored task
C4_Witness_Created ==
    /\ Answered /\ Get(req).op = "CreateTask"
    /\ Validate(NewTask(Get(req).in)) = Nil
    /\ IsSome(Get(resp).ret)
    /\ Get(Get(resp).ret).ID \in DOMAIN tasks
    /\ tasks[Get(Get(resp).ret).ID].Status = TaskStatusPending

\* the invariants of a task that an update can break: the name is not blank
\* and at most 255 bytes, status and priority are among the enumerated values
SatisfiesTaskInvariants(t) ==
    /\ TrimSpace(t.Name) # <<>>
    /\ StrLen(t.Name) <= MaxNameLen
    /\ t.Status \in {TaskStatusPending, TaskStatusInProgress, StatusActive,
                     TaskStatusCompleted, TaskStatusCancelled}
    /\ t.Priority \in {PriorityLow, PriorityMedium, PriorityHigh}

\* the row before the request with the fields present in the input overwritten
Merged(t, in) ==
    [t EXCEPT !.Name = IF IsSome(in.Name) THEN Get(in.Name) ELSE @,
              !.Description = IF IsSome(in.Description) THEN Get(in.Description) ELSE @,
              !.Status = IF IsSome(in.Status) THEN Get(in.Status) ELSE @,
              !.Priority = IF IsSome(in.Priority) THEN Get(in.Priority) ELSE @]

\* two rows agree on every field but the timestamps a mutation refreshes
SameButRefreshed(a, b) ==
    /\ DOMAIN a = DOMAIN b
    /\ \A f \in DOMAIN a \ {"UpdatedAt", "CompletedAt"} : a[f] = b[f]

\* C5: UpdateTask changes exactly the fields present in the input (name,
\* description, status, priority) and retains every other attribute of the
\* task (the timestamps that a mutation refreshes aside); it fails with
\* NotFound when no task has the id; and when the merged task violates the
\* task invariants it fails, leaves the stored task as it was and publishes
\* no event.
C5_UpdateMergesAndValidates ==
    (Answered /\ Get(req).op = "UpdateTask")
    => IF Get(req).id \notin DOMAIN Get(resp).before
           THEN /\ Get(resp).err # Nil
                /\ tasks = Get(resp).before
                /\ Get(resp).pub = "none"
                /\ Get(resp).fault = "none" => ErrorsIs(Get(resp).err, ErrTaskNotFound)
       ELSE IF ~SatisfiesTaskInvariants(Merged(TaskBefore, Get(req).in))
           THEN /\ Get(resp).err # Nil
                /\ tasks = Get(resp).before
                /\ Get(resp).pub = "none"
       ELSE /\ Get(resp).fault \in {"none", "pub"} => Get(resp).err = Nil
            /\ Get(resp).err = Nil
                => /\ DOMAIN tasks = DOMAIN Get(resp).before
                   /\ SameButRefreshed(tasks[Get(req).id],
                                       Merged(TaskBefore, Get(req).in))
                   /\ \A id \in DOMAIN tasks \ {Get(req).id} :
                        tasks[id] = Get(resp).before[id]
            /\ Get(resp).err # Nil => tasks = Get(resp).before

\* the request in hand addresses a row that an earlier request deleted
OnDeletedTask ==
    Answered /\ Get(req).id \in deleted /\ Get(req).id \notin DOMAIN Get(resp).before

\* C6: after a successful DeleteTask(id) the row stays gone; GetTask(id)
\* and a second DeleteTask(id) fail and publish no event, and unless the
\* driver itself fails the error is NotFound, answered with HTTP 404.
C6_DeletedTaskIsNotFound ==
    /\ deleted \cap DOMAIN tasks = {}
    /\ (OnDeletedTask /\ Get(req).op \in {"GetTask", "DeleteTask"})
       => /\ Get(resp).err # Nil
          /\ Get(resp).pub = "none"
          /\ tasks = Get(resp).before
          /\ Get(resp).fault \notin {"get", "write"}
                => /\ Get(resp).err = ErrTaskNotFound
                   /\ Get(resp).code = StatusNotFound

\* a second DeleteTask of a deleted row has been answered with 404
C6_Witness_SecondDelete ==
    /\ OnDeletedTask /\ Get(req).op = "DeleteTask"
    /\ Get(resp).code = StatusNotFound
    /\ Get(resp).pub = "none"

\* C7: in every operation that writes, when the write succeeds and the
\* publish of the event fails, the operation reports success (201 for
\* create) and the change stays in the table.
C7_PublishFailureIsNotAFailure ==
    (Answered /\ Get(resp).pub = "failed")
    => /\ Get(resp).err = Nil
       /\ Get(resp).code = SuccessStatus(Get(req).op)
       /\ Get(req).op = "CreateTask"
            => /\ Get(resp).code = StatusCreated
               /\ IsSome(Get(resp).ret)
               /\ Get(Get(resp).ret).ID \in DOMAIN tasks \ DOMAIN Get(resp).before
       /\ Get(req).op = "UpdateTask"
            => tasks[Get(req).id] = ApplyUpdate(TaskBefore, Get(req).in, now)
       /\ Get(req).op = "DeleteTask"
            => Get(req).id \in DOMAIN Get(resp).before \ DOMAIN tasks
       /\ Get(req).op = "AssignTask"
            => tasks[Get(req).id].AssignedTo = Some(Get(req).in.UserID)
       /\ Get(req).op = "CompleteTask"
            => tasks[Get(req).id].Status = TaskStatusCompleted

\* a create whose publish failed has been answered with 201
C7_Witness_CreatedUnpublished ==
    /\ Answered /\ Get(req).op = "CreateTask"
    /\ Get(resp).fault = "pub" /\ Get(resp).pub = "failed"
    /\ Get(resp).code = StatusCreated
    /\ Get(Get(resp).ret).ID \in DOMAIN tasks

\* the request in hand is a POST /tasks/{id}/complete or /assign (with a
\* positive user_id) on a stored task whose status is completed or cancelled,
\* and no call to the database failed
IllegalForStatus ==
    /\ OnStoredTask
    /\ Get(req).op \in {"CompleteTask", "AssignTask"}
    /\ Get(req).op = "AssignTask" => Get(req).in.UserID > 0
    /\ TaskBefore.Status \in TerminalStatuses
    /\ NoStorageFault

\* C12: a complete or an assign on a completed or cancelled task is answered
\* with status 409 (or 400) and leaves the task as it was.
C12_IllegalTransitionIsConflict ==
    IllegalForStatus => Get(resp).code \in {409, 400} /\ tasks = Get(resp).before

\* what the handler does answer: the error of Task.Complete / Task.Assign is
\* none of the values handleUseCaseError names, so the status is 500 with the
\* generic message; the task is left as it was
IllegalTransitionIsInternalError ==
    IllegalForStatus
    => /\ Get(resp).err # Nil
       /\ Get(resp).code = StatusInternalServerError
       /\ Get(resp).body = InternalServerErrorMessage
       /\ tasks = Get(resp).before

\* the status the error kinds map to: NotFound 404, validation and invalid
\* input 400, Unauthorized 401, anything else 500
StatusOfKind(err) ==
    IF ErrorsIs(err, ErrTaskNotFound) THEN StatusNotFound
    ELSE IF \/ ErrorsIs(err, ErrEmptyTaskName)
            \/ ErrorsIs(err, ErrTaskNameTooLong)
            \/ ErrorsIs(err, ErrInvalidInput) THEN StatusBadRequest
    ELSE IF ErrorsIs(err, ErrUnauthorized) THEN StatusUnauthorized
    ELSE StatusInternalServerError

\* no text of the error is in the message
LeaksNothing(body, err) ==
    \A i \in 1..Len(err) : \A j \in 1..Len(body) : body[j] # err[i]

\* the request in hand was answered from an error of the use case
AnsweredError ==
    Answered /\ Get(resp).by = "usecase" /\ Get(resp).err # Nil /\ Get(resp).code # 0

\* C13: for every error a use case returns, the handler answers 404 for
\* NotFound, 400 for validation and invalid-input errors, 401 for
\* Unauthorized and 500 for anything else, and a 500 response carries a fixed
\* message with no text of the internal error in it.
C13_ErrorKindsMapToStatus ==
    AnsweredError
    => /\ Get(resp).code = StatusOfKind(Get(resp).err)
       /\ Get(resp).code = StatusInternalServerError
            => LeaksNothing(Get(resp).body, Get(resp).err)

\* the part of C13 that handlers.TaskHandler keeps: whatever the error, the
\* message is the fixed text of the handler
HandlerMessageIsFixed ==
    AnsweredError
    => /\ Get(resp).body = HandlerMessage(Get(req).op, ErrInternal)
       /\ LeaksNothing(Get(resp).body, Get(resp).err)

\* a create request the service must refuse: a name that is empty or only
\* whitespace, a name longer than 255, a priority that is none of low,
\* medium and high, or a creator that is not positive
BadCreate(in) ==
    \/ TrimSpace(in.Name) = <<>>
    \/ StrLen(in.Name) > MaxNameLen
    \/ in.Priority \notin {PriorityLow, PriorityMedium, PriorityHigh}
    \/ in.CreatedBy <= 0

\* C16: POST /tasks with a name that is empty or whitespace-only, a name
\* longer than 255 characters, a priority outside {low, medium, high} or a
\* non-positive created_by is answered 400 with an error message in the
\* body; no task is persisted and no event is published.
C16_BadCreateIsRejected ==
    (Answered /\ Get(req).op = "CreateTask" /\ BadCreate(Get(req).in))
    => /\ Get(resp).code = StatusBadRequest
       /\ Get(resp).body # <<>>
       /\ Get(resp).ret = None
       /\ Get(resp).pub = "none"
       /\ tasks = Get(resp).before

\* a table with a task in it, and a create with a name of 256 answered 400
C16_Witness_LongNameRejected ==
    /\ Answered
    /\ Get(req).op = "CreateTask"
    /\ Get(req).in.Name = NameOfLen(MaxNameLen + 1)
    /\ Get(resp).code = StatusBadRequest
    /\ Get(resp).before # <<>>
    /\ tasks = Get(resp).before

\* what the method the use case of the request in hand calls on the loaded
\* task returns: Task.Assign for AssignTask, Task.Complete for CompleteTask
MethodCalled ==
    IF Get(req).op = "AssignTask" THEN Assign(TaskBefore, Get(req).in.UserID, now)
    ELSE Complete(TaskBefore, now)

\* the use case of the request in hand loaded a stored task and called
\* Task.Assign or Task.Complete on it
MethodWasCalled ==
    /\ OnStoredTask
    /\ Get(req).op \in {"AssignTask", "CompleteTask"}
    /\ Get(resp).by = "usecase"
    /\ Get(resp).fault # "get"

\* C30: when Task.Assign, Task.Complete or Task.Cancel returns an error the
\* task is as it was, status, assignee and last-updated timestamp included;
\* AssignTask and CompleteTask then return that error, write nothing to the
\* table and publish no event.
C30_FailedMethodChangesNothing ==
    /\ \A id \in DOMAIN tasks :
        /\ \A u \in UserIDs :
            Assign(tasks[id], u, now).err # Nil => Assign(tasks[id], u, now).task = tasks[id]
        /\ Complete(tasks[id], now).err # Nil => Complete(tasks[id], now).task = tasks[id]
        /\ Cancel(tasks[id], now).err # Nil => Cancel(tasks[id], now).task = tasks[id]
    /\ (MethodWasCalled /\ MethodCalled.err # Nil)
        => /\ MethodCalled.task = TaskBefore
           /\ Get(resp).err = MethodCalled.err
           /\ tasks = Get(resp).before
           /\ Get(resp).pub = "none"

\* CompleteTask on a task completed at an earlier instant has failed with
\* the error of Task.Complete, and the row and its timestamp are as before
C30_Witness_CompleteTwice ==
    /\ MethodWasCalled
    /\ Get(req).op = "CompleteTask"
    /\ TaskBefore.Status = TaskStatusCompleted
    /\ TaskBefore.UpdatedAt < now
    /\ Get(resp).err = Complete(TaskBefore, now).err
    /\ Get(resp).err # Nil
    /\ tasks = Get(resp).before
    /\ Get(resp).pub = "none"

\* C26: a task's identifier is unique among all tasks ever created and is not
\* given again after a delete, and no UpdateTask, AssignTask or CompleteTask
\* changes the identifier, the creator or the creation timestamp of a
\* persisted task.
C26_IdentityIsUniqueAndImmutable ==
    /\ \A i \in DOMAIN tasks : tasks[i].ID = i /\ i < nextID /\ i \notin deleted
    /\ \A i \in deleted : i < nextID
    /\ (Answered /\ Get(req).op \in {"UpdateTask", "AssignTask", "CompleteTask"}) =>
        /\ DOMAIN tasks = DOMAIN Get(resp).before
        /\ \A i \in DOMAIN tasks :
            /\ tasks[i].ID = Get(resp).before[i].ID
            /\ tasks[i].CreatedBy = Get(resp).before[i].CreatedBy
            /\ tasks[i].CreatedAt = Get(resp).before[i].CreatedAt

\* a task has been created after the first one was deleted: it has the next
\* identifier, not the one set free
C26_Witness_CreatedAfterDelete ==
    /\ Answered /\ Get(req).op = "CreateTask" /\ Get(resp).err = Nil
    /\ deleted = {1}
    /\ DOMAIN tasks = {2}
    /\ Get(Get(resp).ret).ID = 2
    /\ nextID = 3

----------------------------------------------------------------------------
(* The same properties of the UUID-keyed use case (SpecUUID).              *)

\* the counterpart of C4 for UseCase.CreateTask: unless begin, insert or
\* commit fails, the task returned is pending, has an id and both timestamps,
\* and is the row stored
CreateReturnsStoredPendingTaskUUID ==
    (Answered /\ Get(req).op = "CreateTask" /\ Get(resp).by = "usecase"
        /\ Get(resp).fault \in {"none", "pub"})
    => /\ Get(resp).err = Nil
       /\ IsSome(Get(resp).ret)
       /\ LET t == Get(Get(resp).ret)
          IN  /\ t.Status = StatusPending
              /\ t.ID > 0 /\ t.CreatedAt > 0 /\ t.UpdatedAt > 0
              /\ t.ID \in DOMAIN tasks \ DOMAIN Get(resp).before
              /\ tasks[t.ID] = t

\* the counterpart of C7 for UseCase: a failed send inside the transaction
\* body is logged, the body returns nil, the transaction commits
PublishFailureIsNotAFailureUUID ==
    (Answered /\ Get(resp).pub = "failed")
    => /\ Get(resp).err = Nil
       /\ Get(req).op = "CreateTask"
            => /\ Get(resp).code = StatusCreated
               /\ Get(Get(resp).ret).ID \in DOMAIN tasks \ DOMAIN Get(resp).before
       /\ Get(req).op \in {"UpdateTask", "CompleteTask"}
            => tasks[Get(req).id] = Get(Get(resp).ret)
       /\ Get(req).op = "DeleteTask"
            => Get(req).id \in DOMAIN Get(resp).before \ DOMAIN tasks

\* the operation of UseCase that request q asks for, run on table tbl
UseCaseRun(q, tbl, seq, tm, mode, fault) ==
    IF q.op = "CreateTask" THEN UseCaseCreateTask(tbl, seq, q.in, tm, mode, fault)
    ELSE IF q.op = "GetTask" THEN UseCaseGetTask(tbl, seq, q.id, fault)
    ELSE IF q.op = "UpdateTask" THEN UseCaseUpdateTask(tbl, seq, q.id, q.in, tm, mode, fault)
    ELSE IF q.op = "DeleteTask" THEN UseCaseDeleteTask(tbl, seq, q.id, mode, fault)
    ELSE UseCaseCompleteTask(tbl, seq, q.id, tm, mode, fault)

\* the value of the identifier counter when the use case was called for the
\* request in hand
SeqBefore == IF Get(req).op = "CreateTask" THEN nextID - 1 ELSE nextID

\* C11: when the producer is the disabled stub, every Send* returns nil
\* whatever the state of the broker and nothing is sent, and the use case
\* returns the same error and task and leaves the same table as it does
\* with an enabled producer whose send succeeds, making its publish call at
\* the same point.
C11_DisabledProducerIsNoOp ==
    (Answered /\ producer = "disabled" /\ Get(resp).by = "usecase")
    => LET a == Get(resp)
           e == UseCaseRun(Get(req), a.before, SeqBefore, now, "enabled",
                           IF a.fault = "pub" THEN "none" ELSE a.fault)
       IN  /\ \A brokerDown \in BOOLEAN : SendTask(producer, brokerDown) = Nil
           /\ a.pub \in {"none", "skipped"}
           /\ a.pub = "skipped" <=> e.pub = "sent"
           /\ a.err = e.err
           /\ a.ret = e.ret
           /\ tasks = e.tbl
           /\ nextID = e.seq

\* with the disabled stub and the broker down, a create was stored and
\* answered with 201 without a send
C11_Witness_CreatedWithoutSend ==
    /\ Answered /\ producer = "disabled" /\ Get(req).op = "CreateTask"
    /\ Get(resp).fault = "pub"
    /\ Get(resp).err = Nil
    /\ Get(resp).pub = "skipped"
    /\ Get(resp).code = StatusCreated
    /\ Get(Get(resp).ret).ID \in DOMAIN tasks

\* the change the answered request asked for is in the table
ChangePersisted ==
    IF Get(req).op = "DeleteTask" THEN Get(req).id \notin DOMAIN tasks
    ELSE /\ IsSome(Get(resp).ret)
         /\ Get(Get(resp).ret).ID \in DOMAIN tasks
         /\ tasks[Get(Get(resp).ret).ID] = Get(Get(resp).ret)

\* C21: a task event is published only after the database change it
\* describes has been committed: when an event has been sent, the request
\* has succeeded and its change is in the table; no event is sent for a
\* change that is rolled back or whose commit fails.
C21_EventOnlyAfterCommit ==
    (Answered /\ Get(resp).by = "usecase" /\ Get(resp).pub = "sent")
    => Get(resp).err = Nil /\ ChangePersisted

\* what the UUID-keyed use case keeps of C21: an event is sent only after the
\* repository call of the transaction has succeeded, and the one thing that
\* can undo the change afterwards is the commit
EventOnlyAfterWrite ==
    (Answered /\ Get(resp).by = "usecase" /\ Get(resp).pub = "sent")
    => \/ Get(resp).err = Nil /\ ChangePersisted
       \/ Get(resp).fault = "commit" /\ Get(resp).err # Nil /\ tasks = Get(resp).before

====
